---------------------------- MODULE Spec2Model ----------------------------
(***************************************************************************)
(* A model of the back-testing engines of the repository:                  *)
(*                                                                         *)
(*   - backtest_optimization.py : candidate pool scan, parameter-grid       *)
(*     evaluation with first-trigger exit resolution, ranking (Spec); the   *)
(*     grid loop run twice on one pool (SpecTwice); the ranking applied to  *)
(*     short lists of results (SpecRank);                                   *)
(*   - stock_scanner_go.py      : day-by-day back-test loop of              *)
(*     backtest_task (SpecTrade, together with the grid evaluator applied   *)
(*     to one exhaustively enumerated candidate);                           *)
(*   - the three parallel coordinators of stock_scanner_go.py,              *)
(*     furong_chushui_strategy.py and weekly_strategy_backtest.py (SpecPar);*)
(*   - weekly_strategy_backtest.py : the weekly loop of run_backtest         *)
(*     (SpecWeekly);                                                        *)
(*   - furong_chushui_strategy.py : check_signal and process_single_file    *)
(*     (SpecFurong);                                                        *)
(*   - stock_scanner_go.py      : calculate_indicators and get_signals_fast *)
(*     computed from the rows of a series (SpecInd).                        *)
(*                                                                         *)
(* Units.  Prices are integers in tenths of a currency unit (10.2 -> 102). *)
(* Fractions such as stop_loss are integers in hundredths (-0.08 -> -8).    *)
(* A return is an exact rational [n, d] in lowest terms with d > 0, so two  *)
(* returns are equal as records iff they are equal as numbers.  Floating    *)
(* point rounding of the source is not modelled.                            *)
(*                                                                         *)
(* Scaling.  The configuration constants of the source are scaled down so  *)
(* that the reachable states can be enumerated: the forward window of 35    *)
(* bars becomes FWD_LEN bars, the holds 10..35 become <<2, 3>>, the floor   *)
(* of 500 trades becomes 2, the 20 holding days become 3, the rolling        *)
(* windows of 60 and 9 rows become 3 and 2, the minimum of 65 rows becomes  *)
(* 4, the 100 rows of the report become 2.  The relations between them are  *)
(* kept: the largest hold equals the window length, the scan guard is one   *)
(* more than the window length, the minimum length exceeds the longest      *)
(* rolling window.  In run_backtest the first scanned week 15 becomes 1 and *)
(* the minimum of 20 weeks 4; in check_signal the first index 60 becomes 2  *)
(* and the minimum of 70 rows 3.                                            *)
(***************************************************************************)
EXTENDS Integers, Sequences, FiniteSets, Bags, TLC

-----------------------------------------------------------------------------
(* Exact rational arithmetic for returns. *)

Abs(x) == IF x < 0 THEN -x ELSE x

RECURSIVE GCD(_, _)
GCD(a, b) == IF b = 0 THEN a ELSE GCD(b, a % b)

\* n / d in lowest terms, d # 0
Rat(n, d) ==
    LET g == GCD(Abs(n), Abs(d))
        s == IF d < 0 THEN -1 ELSE 1
    IN  [n |-> (s * n) \div g, d |-> (s * d) \div g]

RatLE(a, b) == a.n * b.d <= b.n * a.d
RatLT(a, b) == a.n * b.d < b.n * a.d
RatAdd(a, b) == Rat(a.n * b.d + b.n * a.d, a.d * b.d)
RatZero == [n |-> 0, d |-> 1]

RECURSIVE RatSum(_)
RatSum(s) == IF s = <<>> THEN RatZero ELSE RatAdd(Head(s), RatSum(Tail(s)))


\* round(x, 4) of lines 158-159: the nearest multiple of 1/10000, a tie going
\* to the even one; the result is counted in ten-thousandths.
Round4(r) ==
    LET num == r.n * 10000
        q   == num \div r.d
        rem == num - q * r.d
    IN  IF 2 * rem < r.d THEN q
        ELSE IF 2 * rem > r.d THEN q + 1
        ELSE IF q % 2 = 0 THEN q ELSE q + 1

-----------------------------------------------------------------------------
(* backtest_optimization.py: configuration (scaled, see the header). *)

Nil == "None"

\* PARAM_GRID: every dimension keeps at least two values, in source order.
PARAM_GRID ==
    [min_pot   |-> <<15, 20>>,
     rsi_max   |-> <<20, 30>>,
     max_hold  |-> <<2, 3>>,
     stop_loss |-> <<-8, -10>>,
     k_sell    |-> <<70, 80>>]

\* the length of every forward window: the slices [idx+1 : idx+36]
FWD_LEN == 3

\* MIN_TRADES_FILTER = 500
MIN_TRADES_FILTER == 2

\* res_df.head(100)
TOP_K == 2

\* len(df) < 65
MIN_BARS == 4

\* rolling(60).mean(): undefined (NaN) on the first 59 rows
MA60_WIN == 3

\* rolling(9).min() / .max(): undefined (NaN) on the first 8 rows
KDJ_WIN == 2

\* itertools.product(*PARAM_GRID.values()): the last dimension varies fastest
NCombos ==
    Len(PARAM_GRID.min_pot) * Len(PARAM_GRID.rsi_max) * Len(PARAM_GRID.max_hold)
      * Len(PARAM_GRID.stop_loss) * Len(PARAM_GRID.k_sell)

ComboAt(i) ==
    LET n5 == Len(PARAM_GRID.k_sell)
        n4 == Len(PARAM_GRID.stop_loss)
        n3 == Len(PARAM_GRID.max_hold)
        n2 == Len(PARAM_GRID.rsi_max)
        z  == i - 1
    IN  [p_pot   |-> PARAM_GRID.min_pot[(z \div (n5 * n4 * n3 * n2)) + 1],
         p_rsi   |-> PARAM_GRID.rsi_max[((z \div (n5 * n4 * n3)) % n2) + 1],
         p_hold  |-> PARAM_GRID.max_hold[((z \div (n5 * n4)) % n3) + 1],
         p_stop  |-> PARAM_GRID.stop_loss[((z \div n5) % n4) + 1],
         p_k_lvl |-> PARAM_GRID.k_sell[(z % n5) + 1]]

-----------------------------------------------------------------------------
(* backtest_optimization.py: the candidate scan of main.                    *)
(* A file is "unreadable" (pd.read_csv raises), "nocolumn" (a column the    *)
(* indicator engine reads is missing) or "ok" with its bars; a bar carries  *)
(* the indicator values calculate_all_indicators returns for it once the    *)
(* rolling windows have filled.  Before that the value is NaN: potential on *)
(* the first MA60_WIN - 1 rows, k and d on the first KDJ_WIN - 1 rows (rsi6 *)
(* and macd_h are exponential averages, defined from the first row).  NaN   *)
(* is kept as a flag beside the value, and a comparison with NaN is false.  *)

Bar(c, l, pot, rsi, k, d, m) ==
    [close |-> c, low |-> l, potential |-> pot, rsi6 |-> rsi,
     k |-> k, d |-> d, macd_h |-> m]

\* calculate_all_indicators: None (NoIndicators) for a short series or on any
\* exception, else the indicator arrays (here: the bars themselves).
NoIndicators == [none |-> TRUE, bars |-> <<>>]

\* the arrays of the returned dictionary, row by row
Indicators(bars) ==
    [i \in 1..Len(bars) |->
        [close |-> bars[i].close, low |-> bars[i].low,
         potential |-> bars[i].potential, rsi6 |-> bars[i].rsi6,
         k |-> bars[i].k, d |-> bars[i].d, macd_h |-> bars[i].macd_h,
         pot_nan |-> i < MA60_WIN, kd_nan |-> i < KDJ_WIN]]

calculate_all_indicators(df) ==
    IF Len(df.bars) < MIN_BARS THEN NoIndicators
    ELSE IF df.kind = "nocolumn" THEN NoIndicators
    ELSE [none |-> FALSE, bars |-> Indicators(df.bars)]

\* mask = (potential > 10) & (rsi6 < 45) & (k > d)
\* (AdmissionMaskNoNaN: the variant that compares the stored values only)
AdmissionMaskNoNaN(ind) ==
    [i \in 1..Len(ind) |->
        ind[i].potential > 10 /\ ind[i].rsi6 < 45 /\ ind[i].k > ind[i].d]
AdmissionMask(ind) ==
    [i \in 1..Len(ind) |->
        /\ ~ind[i].pot_nan /\ ind[i].potential > 10
        /\ ind[i].rsi6 < 45
        /\ ~ind[i].kd_nan /\ ind[i].k > ind[i].d]

\* x[idx+1 : idx+36] for one field; i is the 1-based position of idx.  A
\* slice stops at the end of the array.
Forward(ind, i, field) ==
    LET stop == IF i + FWD_LEN <= Len(ind) THEN i + FWD_LEN ELSE Len(ind)
    IN  [j \in 1..(stop - i) |-> ind[i + j][field]]

\* the dictionary appended for an admitted index
Signal(ind, i) ==
    [entry_p  |-> ind[i].close,
     pot      |-> ind[i].potential,
     rsi      |-> ind[i].rsi6,
     f_close  |-> Forward(ind, i, "close"),
     f_low    |-> Forward(ind, i, "low"),
     f_k      |-> Forward(ind, i, "k"),
     f_d      |-> Forward(ind, i, "d"),
     f_macd_h |-> Forward(ind, i, "macd_h")]

\* if idx + 36 >= len(close): continue      (idx = i - 1 is 0-based)
\* (TooLateNever: the variant without the guard)
TooLateNever(ind, i) == FALSE
TooLate(ind, i) == (i - 1) + (FWD_LEN + 1) >= Len(ind)

\* the positions for which "for idx in indices" reaches the append, in order
RECURSIVE SignalIdxFrom(_, _)
SignalIdxFrom(ind, i) ==
    IF i > Len(ind) THEN <<>>
    ELSE (IF AdmissionMask(ind)[i] /\ ~TooLate(ind, i) THEN <<i>> ELSE <<>>)
         \o SignalIdxFrom(ind, i + 1)

SignalsFrom(ind, i) ==
    LET at == SignalIdxFrom(ind, i)
    IN  [n \in 1..Len(at) |-> Signal(ind, at[n])]

\* the positions of the signals one file adds
FileSignalIdx(df) ==
    LET ind == calculate_all_indicators(df)
    IN  IF ind.none THEN <<>> ELSE SignalIdxFrom(ind.bars, 1)

\* the body of "for f in files" after the read: the signals one file adds
FileSignals(df) ==
    LET ind == calculate_all_indicators(df)
    IN  IF ind.none THEN <<>> ELSE SignalsFrom(ind.bars, 1)

-----------------------------------------------------------------------------
(* backtest_optimization.py: one parameter combination of the grid loop. *)

\* mask = (pot_arr >= p_pot) & (rsi_arr <= p_rsi)
\* (EntryMaskBand: the variant that reads rsi_max as the lower edge of a band)
EntryMaskBand(pool, p) ==
    [i \in 1..Len(pool) |-> pool[i].pot >= p.p_pot /\ pool[i].rsi >= p.p_rsi]
EntryMask(pool, p) ==
    [i \in 1..Len(pool) |-> pool[i].pot >= p.p_pot /\ pool[i].rsi <= p.p_rsi]

\* np.sum(mask)
CountTrue(mask) == Cardinality({i \in DOMAIN mask : mask[i]})

\* arr[mask]: the rows whose mask entry is true, in order
RECURSIVE BoolIndexFrom(_, _, _)
BoolIndexFrom(arr, mask, i) ==
    IF i > Len(arr) THEN <<>>
    ELSE (IF mask[i] THEN <<arr[i]>> ELSE <<>>) \o BoolIndexFrom(arr, mask, i + 1)

BoolIndex(arr, mask) == BoolIndexFrom(arr, mask, 1)

\* if np.sum(mask) < MIN_TRADES_FILTER: continue
\* (BelowFloorLE: the variant that also skips a subset of exactly the floor)
BelowFloorLE(n) == n <= MIN_TRADES_FILTER
BelowFloor(n) == n < MIN_TRADES_FILTER

\* c1 = (m_low - m_entry) / m_entry <= p_stop, for one row and one day
\* (C1Close: the variant that tests the close instead of the low)
C1Close(s, p, j) == RatLE(Rat(s.f_close[j] - s.entry_p, s.entry_p), Rat(p.p_stop, 100))
C1(s, p, j) == RatLE(Rat(s.f_low[j] - s.entry_p, s.entry_p), Rat(p.p_stop, 100))

\* c2 = (m_k > p_k_lvl) & (m_k < m_d)
C2(s, p, j) == s.f_k[j] > p.p_k_lvl /\ s.f_k[j] < s.f_d[j]

\* c3 = (m_macd < 0)
C3(s, p, j) == s.f_macd_h[j] < 0

\* exit_matrix = c1 | c2 | c3, one row: columns 1..p_hold
\* (ExitRowFull: the variant that does not cut the windows at p_hold)
ExitRowFull(s, p) ==
    [j \in 1..Len(s.f_close) |-> C1(s, p, j) \/ C2(s, p, j) \/ C3(s, p, j)]
ExitRow(s, p) == [j \in 1..p.p_hold |-> C1(s, p, j) \/ C2(s, p, j) \/ C3(s, p, j)]

\* np.any(row)
AnyTrue(row) == \E j \in DOMAIN row : row[j]

\* np.argmax(row): the first position holding the largest value (FALSE < TRUE);
\* positions are 1-based here, so the source's index 0 is position 1
\* (ArgMaxLast: the variant that takes the last such position)
ArgMaxLast(row) ==
    IF AnyTrue(row) THEN CHOOSE j \in DOMAIN row : row[j] /\ \A k \in DOMAIN row : row[k] => k <= j
    ELSE Len(row)
ArgMax(row) ==
    IF AnyTrue(row) THEN CHOOSE j \in DOMAIN row : row[j] /\ \A k \in 1..(j - 1) : ~row[k]
    ELSE 1

\* (price - entry) / entry
\* (PriceRetOverPrice: the variant that divides by the exit price)
PriceRetOverPrice(price, entry) == Rat(price - entry, price)
PriceRet(price, entry) == Rat(price - entry, entry)

\* actual_rets = np.where(is_stop_trigger, p_stop, actual_rets)
\* (StopOverrideNever: the variant without the correction)
StopOverrideNever(is_stop_trigger, p_stop, actual) == actual
StopOverride(is_stop_trigger, p_stop, actual) ==
    IF is_stop_trigger THEN Rat(p_stop, 100) ELSE actual

\* final_rets[has_exit] = actual_rets: which rows are overwritten
\* (OverwrittenAll: the variant without the has_exit guard, where a row with
\* no exit takes the price of position argmax = 0)
OverwrittenAll(has_exit) == TRUE
Overwritten(has_exit) == has_exit

\* lines 136-153 for one selected row
FinalRet(s, p) ==
    LET row        == ExitRow(s, p)
        has_exit   == AnyTrue(row)
        first_exit == ArgMax(row)
        default    == PriceRet(s.f_close[p.p_hold], s.entry_p)
        actual     == StopOverride(C1(s, p, first_exit), p.p_stop,
                                   PriceRet(s.f_close[first_exit], s.entry_p))
    IN  IF Overwritten(has_exit) THEN actual ELSE default

\* the locals of one iteration of the grid loop that reaches line 155
Evaluate(pool, p) ==
    LET mask == EntryMask(pool, p)
        sel  == BoolIndex(pool, mask)
    IN  [p          |-> p,
         mask       |-> mask,
         has_exit   |-> [i \in 1..Len(sel) |-> AnyTrue(ExitRow(sel[i], p))],
         first_exit |-> [i \in 1..Len(sel) |-> ArgMax(ExitRow(sel[i], p))],
         final_rets |-> [i \in 1..Len(sel) |-> FinalRet(sel[i], p)]]

\* final_rets[has_exit] = actual_rets, seen from the pooled arrays: final_rets
\* is the array the arithmetic of line 140 allocates, and m_close, m_low, ...
\* are cut from f_close[mask], f_low[mask], ..., which boolean indexing
\* copies; the assignment writes to no array of the pool
\* (PoolAfterAssignView: the variant where final_rets is a view of column
\* p_hold of f_close, so that the assignment writes the pool)
PoolAfterAssignView(pool, ev) ==
    [i \in DOMAIN pool |->
        IF ev.mask[i] THEN [pool[i] EXCEPT !.f_close[ev.p.p_hold] = pool[i].entry_p]
        ELSE pool[i]]
PoolAfterAssign(pool, ev) == pool

\* np.sum(final_rets > 0)
Wins(rets) == Cardinality({i \in DOMAIN rets : RatLT(RatZero, rets[i])})

\* results.append({...}): count, win rate and mean return rounded to 4 places
CombinationResult(p, rets) ==
    [p     |-> p,
     count |-> Len(rets),
     win   |-> Round4(Rat(Wins(rets), Len(rets))),
     mean  |-> Round4(Rat(RatSum(rets).n, RatSum(rets).d * Len(rets)))]


\* res_df = DataFrame(results).sort_values('胜率', ascending=False); head(100).
\* The sort has one key and the default (unstable) algorithm: rows of equal
\* win rate may come out in any order.  TopOrders(rem, m) is the set of the
\* possible first m rows, as sequences of positions in results.
\* (WorstOf: the variant that sorts ascending)
WorstOf(res, rem) == {i \in rem : \A j \in rem : res[j].win >= res[i].win}
BestOf(res, rem) == {i \in rem : \A j \in rem : res[j].win <= res[i].win}

RECURSIVE TopOrders(_, _, _)
TopOrders(res, rem, m) ==
    IF m = 0 \/ rem = {} THEN {<<>>}
    ELSE UNION {{<<i>> \o t : t \in TopOrders(res, rem \ {i}, m - 1)} :
                i \in BestOf(res, rem)}

-----------------------------------------------------------------------------
(* stock_scanner_go.py: backtest_task.  A bar carries what the day loop     *)
(* reads of the arrays calculate_indicators returns, and sig, whether the   *)
(* comparisons of one of the three labels of get_signals_fast hold for the  *)
(* values of the bar once the rolling windows have filled.                  *)

\* STOP_LOSS_LIMIT = -0.10, in hundredths
STOP_LOSS_LIMIT == -10

\* HOLD_DAYS = 20
HOLD_DAYS == 3

\* calculate_indicators: len(df) < 65
GO_MIN_BARS == 4

\* calculate_indicators: rolling(60).mean(), NaN on the first 59 rows
GO_MA60_WIN == 3

GoBar(c, h, l, m20, m60, sig) ==
    [close |-> c, high |-> h, low |-> l, ma20 |-> m20, ma60 |-> m60, sig |-> sig]

\* get_signals_fast: every label is a conjunction with basic_filter, whose
\* potential >= MIN_PROFIT_POTENTIAL is false while ma60 is NaN
\* (get_signals_no_nan: the variant that labels a bar inside the warm-up)
get_signals_no_nan(ind) == [i \in 1..Len(ind) |-> ind[i].sig]
get_signals_fast(ind) == [i \in 1..Len(ind) |-> i >= GO_MA60_WIN /\ ind[i].sig]

\* A. l <= sl_price, with sl_price = entry_p * (1 + STOP_LOSS_LIMIT)
StopHit(l, entry_p) == l * 100 <= entry_p * (100 + STOP_LOSS_LIMIT)

\* B. h >= ma60
Ma60Hit(b) == b.high >= b.ma60

\* C. h >= ma20 and (h / entry_p - 1) >= 0.05
Ma20Hit(b, entry_p) == b.high >= b.ma20 /\ (b.high - entry_p) * 100 >= 5 * entry_p

\* for day in range(1, HOLD_DAYS + 1): the first rule that fires appends its
\* return and breaks; i is the 1-based position of idx
RECURSIVE DayLoop(_, _, _)
DayLoop(ind, i, day) ==
    IF day > HOLD_DAYS THEN [is_closed |-> FALSE, ret |-> RatZero, day |-> day]
    ELSE LET entry_p == ind[i].close
             b       == ind[i + day]
         IN  IF StopHit(b.low, entry_p)
             THEN [is_closed |-> TRUE, ret |-> Rat(STOP_LOSS_LIMIT, 100), day |-> day]
             ELSE IF Ma60Hit(b)
             THEN [is_closed |-> TRUE, ret |-> PriceRet(b.ma60, entry_p), day |-> day]
             ELSE IF Ma20Hit(b, entry_p)
             THEN [is_closed |-> TRUE, ret |-> PriceRet(b.ma20, entry_p), day |-> day]
             ELSE DayLoop(ind, i, day + 1)

\* if not is_closed: the forced close is appended only when the loop ended
\* without a break (ForcedCloseAlways: the variant that appends it regardless)
ForcedCloseAlways(r) == TRUE
ForcedClose(r) == ~r.is_closed

\* what one signal index appends to trades: the loop's return on a break, and
\* the return at the close of day HOLD_DAYS when the position was not closed
TradeAppends(ind, i) ==
    LET r == DayLoop(ind, i, 1)
    IN  (IF r.is_closed THEN <<r.ret>> ELSE <<>>)
        \o (IF ForcedClose(r)
            THEN <<PriceRet(ind[i + HOLD_DAYS].close, ind[i].close)>>
            ELSE <<>>)

\* if idx + HOLD_DAYS >= len(close): continue
GoTooLate(ind, i) == (i - 1) + HOLD_DAYS >= Len(ind)

\* the positions for which "for idx in indices" opens a trade, in order
RECURSIVE TradeIdxFrom(_, _)
TradeIdxFrom(ind, i) ==
    IF i > Len(ind) THEN <<>>
    ELSE (IF get_signals_fast(ind)[i] /\ ~GoTooLate(ind, i) THEN <<i>> ELSE <<>>)
         \o TradeIdxFrom(ind, i + 1)

\* trades, after the iterations of "for idx in indices" from the n-th on
RECURSIVE TradesOver(_, _, _)
TradesOver(ind, at, n) ==
    IF n > Len(at) THEN <<>>
    ELSE TradeAppends(ind, at[n]) \o TradesOver(ind, at, n + 1)

TradesFrom(ind, i) == TradesOver(ind, TradeIdxFrom(ind, i), 1)

\* backtest_task: None when the read or the indicators fail, else the trades;
\* at records the position of each trade's signal (not part of the result)
NoTrades == [none |-> TRUE, trades |-> <<>>, at |-> <<>>]

backtest_task(df) ==
    IF df.kind # "ok" \/ Len(df.bars) < GO_MIN_BARS THEN NoTrades
    ELSE [none |-> FALSE, trades |-> TradesFrom(df.bars, 1),
          at |-> TradeIdxFrom(df.bars, 1)]

-----------------------------------------------------------------------------
(* The stock_data directory of the model: a few instruments whose bars      *)
(* cover the cases of the scan and of the exit rules.                       *)

\* entry bars (admitted by the scan) and the bar that follows the window
EntryA == Bar(100, 98, 25, 18, 30, 20, 1)
EntryB == Bar(200, 196, 25, 18, 30, 20, 1)
EntryC == Bar(100, 98, 18, 25, 30, 20, 1)
EntryD == Bar(100, 98, 12, 44, 30, 20, 1)
\* the bar after the last window: its values pass the comparisons of the
\* scan, it is too late to be a candidate
TailBar == Bar(96, 94, 25, 18, 30, 20, 1)

\* the first rows of a file, inside the warm-up of MA60 (both) and of KDJ
\* (the first): their stored values pass the comparisons of the scan
Warm == <<EntryA, EntryA>>

\* a forward day that is not itself admitted
Day(c, l, k, d, m) == Bar(c, l, 5, 50, k, d, m)

FileContents ==
    { [kind |-> "unreadable", bars |-> <<>>],
      [kind |-> "nocolumn", bars |-> Warm \o <<EntryA, Day(102, 99, 50, 40, 1),
           Day(105, 100, 50, 40, 1), Day(95, 93, 50, 40, 1), TailBar>>],
      \* shorter than MIN_BARS
      [kind |-> "ok", bars |-> <<EntryA>>],
      \* an admitted bar followed by exactly FWD_LEN bars
      [kind |-> "ok", bars |-> Warm \o <<EntryA, Day(102, 99, 50, 40, 1),
           Day(105, 100, 50, 40, 1), Day(95, 93, 50, 40, 1)>>],
      \* closes 10.2, 10.5, 9.5 after an entry at 10.0, no rule fires
      [kind |-> "ok", bars |-> Warm \o <<EntryA, Day(102, 99, 50, 40, 1),
           Day(105, 100, 50, 40, 1), Day(95, 93, 50, 40, 1), TailBar>>],
      \* closes 20.4, 20.8, 21.2 after an entry at 20.0, no rule fires
      [kind |-> "ok", bars |-> Warm \o <<EntryB, Day(204, 201, 50, 40, 1),
           Day(208, 203, 50, 40, 1), Day(212, 206, 50, 40, 1), TailBar>>],
      \* a KDJ reversal on day 1, the stop breached on day 2
      [kind |-> "ok", bars |-> Warm \o <<EntryA, Day(103, 101, 85, 90, 1),
           Day(88, 85, 50, 40, 1), Day(104, 99, 50, 40, 1), TailBar>>],
      \* the stop breached and the MACD histogram negative on day 1
      [kind |-> "ok", bars |-> Warm \o <<EntryC, Day(91, 89, 50, 40, -1),
           Day(97, 95, 50, 40, 1), Day(106, 99, 50, 40, 1), TailBar>>],
      \* two admitted bars in one instrument, the first selected by the
      \* loosest thresholds only; a rule fires on day 3 only
      [kind |-> "ok", bars |-> Warm \o <<EntryC, EntryA, Day(112, 110, 50, 40, 1),
           Day(115, 111, 50, 40, 1), Day(94, 91, 75, 80, 1), TailBar>>],
      \* admitted by the scan, below every min_pot of the grid
      [kind |-> "ok", bars |-> Warm \o <<EntryD, Day(102, 99, 50, 40, 1),
           Day(105, 100, 50, 40, 1), Day(110, 104, 50, 40, 1), TailBar>>] }

\* the number of instrument files in the directory
MaxFiles == 2

-----------------------------------------------------------------------------
(* Instruments of one admitted bar whose forward days range over every      *)
(* combination of a few bars: low at and around both stop levels of the     *)
(* grid, close below and above the entry price, a KDJ reversal above the    *)
(* lower k_sell only, a negative and a zero MACD histogram.                 *)

TradeDays ==
    {Day(lc[2], lc[1], kdm[1], kdm[2], kdm[3]) :
        lc \in {<<95, 96>>, <<95, 104>>, <<92, 97>>, <<85, 89>>},
        kdm \in {<<50, 40, 0>>, <<75, 80, 0>>, <<50, 40, -1>>}}

TradeFiles ==
    {[kind |-> "ok", bars |-> Warm \o <<EntryA, d1, d2, d3, TailBar>>] :
        d1 \in TradeDays, d2 \in TradeDays, d3 \in TradeDays}

\* a second instrument, so that the pool reaches MIN_TRADES_FILTER
SecondFile ==
    [kind |-> "ok", bars |-> Warm \o <<EntryB, Day(204, 201, 50, 40, 1),
         Day(208, 203, 50, 40, 1), Day(212, 206, 50, 40, 1), TailBar>>]

\* the same for backtest_task: the bar after a signal at close 10.0
GoEntry == GoBar(100, 101, 99, 105, 125, TRUE)

\* the first rows of a file, inside the warm-up of MA60, labelled but for NaN
GoWarm == <<GoEntry, GoEntry>>

GoDays ==
    {GoBar(h - 1, h, l, m20, 112, FALSE) :
        h \in {97, 106, 113}, l \in {90, 96}, m20 \in {98, 108}}

GoFiles ==
    {[kind |-> "ok", bars |-> GoWarm \o <<GoEntry, d1, d2, d3>>] :
        d1 \in GoDays, d2 \in GoDays, d3 \in GoDays}
    \cup
    { [kind |-> "unreadable", bars |-> <<>>],
      [kind |-> "nocolumn", bars |-> GoWarm \o <<GoEntry, GoEntry>>],
      [kind |-> "ok", bars |-> <<GoEntry>>],
      \* a signal with fewer than HOLD_DAYS bars after it
      [kind |-> "ok", bars |-> GoWarm \o <<GoEntry, GoBar(96, 97, 96, 108, 112, FALSE),
           GoBar(96, 97, 96, 108, 112, FALSE)>>],
      \* two signals, the second too late
      [kind |-> "ok", bars |-> GoWarm \o <<GoEntry, GoBar(96, 97, 96, 108, 112, FALSE),
           GoBar(96, 97, 96, 108, 112, TRUE), GoBar(105, 106, 96, 108, 112, FALSE)>>],
      \* two traded signals: the first runs to day HOLD_DAYS, the second is
      \* closed by a rule
      [kind |-> "ok", bars |-> GoWarm \o <<GoEntry, GoBar(96, 97, 96, 108, 112, TRUE),
           GoBar(96, 97, 96, 108, 112, FALSE), GoBar(105, 106, 96, 108, 112, FALSE),
           GoBar(112, 113, 96, 108, 112, FALSE)>>] }

-----------------------------------------------------------------------------
(* The parallel coordinators: what a task hands back, and the statistics.   *)
(* A task result is [none, out]: none for a returned None, out the list of  *)
(* returns (the 'backtest' list of process_single_file).                    *)

\* the number of instrument files handed to a coordinator
MaxTasks == 3

Tasks == 1..MaxTasks

Pct(x) == Rat(x, 100)

TaskOuts == {<<>>, <<Pct(5)>>, <<Pct(-3)>>, <<Pct(5), Pct(-3)>>}

NoneResult == [none |-> TRUE, out |-> <<>>]

\* backtest_task: None on any exception, else the list of trades
GoResults == {NoneResult} \cup {[none |-> FALSE, out |-> o] : o \in TaskOuts}

\* process_single_file: None on any exception or filter, else the dictionary
FurongResults == {NoneResult} \cup {[none |-> FALSE, out |-> o] : o \in TaskOuts}

\* run_backtest: a list, empty on any exception or filter
WeeklyResults == {[none |-> FALSE, out |-> o] : o \in TaskOuts}

\* "if res" for the result of backtest_task: neither None nor an empty list
GoTruthy(res) == ~res.none /\ res.out # <<>>

\* "if res:" for the result of process_single_file: not None; its 'today'
\* entry is not modelled
\* (FurongTruthyAlways: the variant without the guard)
FurongTruthyAlways(res) == TRUE
FurongTruthy(res) == ~res.none

\* [t for res in pool.map(...) if res for t in res], from position i on
RECURSIVE MapFlatten(_, _)
MapFlatten(rs, i) ==
    IF i > Len(rs) THEN <<>>
    ELSE (IF GoTruthy(rs[i]) THEN rs[i].out ELSE <<>>) \o MapFlatten(rs, i + 1)

\* all_backtest_profits.extend(res['backtest'])
\* (ExtendReplace: the variant that assigns instead of extending)
ExtendReplace(all, out) == out
Extend(all, out) == all \o out

NoStats == [n |-> 0, win |-> RatZero, mean |-> RatZero]

\* len, np.sum(rets > 0) / len, np.mean; NoStats for the "no data" message
StatsOf(rets) ==
    IF rets = <<>> THEN NoStats
    ELSE [n    |-> Len(rets),
          win  |-> Rat(Wins(rets), Len(rets)),
          mean |-> Rat(RatSum(rets).n, RatSum(rets).d * Len(rets))]

-----------------------------------------------------------------------------
(* State.                                                                   *)

VARIABLES
    \* backtest_optimization.py, main
    files,        \* glob(DATA_DIR/*.csv): the contents of the files, in order
    pc,           \* "scan", "grid", "done" (main returned), "crashed" (it raised)
    fileIdx,      \* the position of "for f in files"
    raw_signals,  \* the candidate pool
    comboIdx,     \* the position of the loop over product(...)
    loc,          \* the locals of the last evaluated combination
    results,      \* the CombinationResults appended so far
    report,       \* the rows written by head(100).to_markdown
    err,          \* the exception that ended main, or Nil
    made,         \* for each candidate of the pool: <<file, position>> (history)
    run,          \* 1, or 2 when the grid loop is run again on the same pool
    prev,         \* the results of the first run of the grid loop
    \* stock_scanner_go.py, one call of backtest_task
    btFile,       \* the file the task is called on
    btRet,        \* what the call returned
    btpc,         \* "call", "returned"
    \* the coordinators
    coord,        \* "map", "as_completed" or "in_order"
    tstate,       \* per task: "running" or "done"
    tres,         \* per task: its result
    order,        \* the tasks whose result the coordinator has taken, in order
    merged,       \* all_rets / all_backtest_profits / all_t
    stats,        \* the statistics printed
    ppc,          \* "collect", "summary", "done", "crashed"
    \* weekly_strategy_backtest.py, one call of run_backtest
    wkFile,       \* the instrument: whether the filters pass, and its weeks
    w_df,         \* the weekly frame with MA5, MA10 and V_MA5
    wi,           \* i of "for i in range(15, len(w_df) - 1)"
    in_pos,       \* whether a position is open
    buy_p,        \* the price the open position was bought at
    buy_d,        \* the week it was bought in (an index of w_df; None is 0)
    trades,       \* the trade records appended so far
    wlog,         \* the entries and exits so far: <<"entry" or "exit", i>> (history)
    wpc,          \* "call", "loop", "returned"
    \* furong_chushui_strategy.py, one call of process_single_file
    fuFile,       \* the file the function is called on
    fuRet,        \* what the call returned
    fupc,         \* "call", "returned"
    \* stock_scanner_go.py, calculate_indicators and get_signals_fast on one
    \* series of bars
    goDf,         \* the file: its rows, in the order of their dates
    goInd,        \* what calculate_indicators returned
    goSigs,       \* what get_signals_fast returned
    gopc          \* "call", "indicators", "signals"

gridVars ==
    <<files, pc, fileIdx, raw_signals, comboIdx, loc, results, report, err,
      made, run, prev>>
btVars == <<btFile, btRet, btpc>>
parVars == <<coord, tstate, tres, order, merged, stats, ppc>>
wkVars == <<wkFile, w_df, wi, in_pos, buy_p, buy_d, trades, wlog, wpc>>
fuVars == <<fuFile, fuRet, fupc>>
indVars == <<goDf, goInd, goSigs, gopc>>
unitVars == <<wkVars, fuVars, indVars>>
vars == <<gridVars, btVars, parVars, unitVars>>

\* before the first combination is evaluated
NoLocals ==
    [p |-> ComboAt(1), mask |-> <<>>, has_exit |-> <<>>,
     first_exit |-> <<>>, final_rets |-> <<>>]

\* a part of the repository that a specification does not run
GridOff ==
    /\ files = <<>> /\ pc = "off" /\ fileIdx = 1 /\ raw_signals = <<>>
    /\ comboIdx = 1 /\ loc = NoLocals /\ results = <<>> /\ report = <<>>
    /\ err = Nil /\ made = <<>> /\ run = 1 /\ prev = <<>>

BtOff == btFile = [kind |-> "unreadable", bars |-> <<>>] /\ btRet = NoTrades /\ btpc = "off"

ParOff ==
    /\ coord = "off" /\ tstate = <<>> /\ tres = <<>> /\ order = <<>>
    /\ merged = <<>> /\ stats = NoStats /\ ppc = "off"

WkOff ==
    /\ wkFile = [kind |-> "unreadable", weeks |-> <<>>] /\ w_df = <<>> /\ wi = 0
    /\ in_pos = FALSE /\ buy_p = 0 /\ buy_d = 0 /\ trades = <<>>
    /\ wlog = <<>> /\ wpc = "off"

\* process_single_file returned None; no today signal
NoToday == [none |-> TRUE, score |-> 0]
FuNone == [none |-> TRUE, backtest |-> <<>>, today |-> NoToday]

FuOff == fuFile = [kind |-> "unreadable", bars |-> <<>>] /\ fuRet = FuNone /\ fupc = "off"

\* calculate_indicators returned None
IndNone == [none |-> TRUE, a |-> <<>>]

IndOff == goDf = [kind |-> "unreadable", rows |-> <<>>] /\ goInd = IndNone /\ goSigs = <<>> /\ gopc = "off"

UnitOff == WkOff /\ FuOff /\ IndOff

-----------------------------------------------------------------------------
(* backtest_optimization.py: main.                                          *)

GridStart(fs) ==
    /\ files = fs
    /\ pc = "scan"
    /\ fileIdx = 1
    /\ raw_signals = <<>>
    /\ comboIdx = 1
    /\ loc = NoLocals
    /\ results = <<>>
    /\ report = <<>>
    /\ err = Nil
    /\ made = <<>>
    /\ run = 1
    /\ prev = <<>>

\* results = []
\* (StaleResults: the variant where the list outlives a run of the loop)
StaleResults == results
FreshResults == <<>>

\* lines 71-91, one file: pd.read_csv is outside every try
ScanFile ==
    /\ pc = "scan"
    /\ fileIdx <= Len(files)
    /\ IF files[fileIdx].kind = "unreadable"
       THEN /\ pc' = "crashed"
            /\ err' = "read_csv"
            /\ UNCHANGED <<fileIdx, raw_signals, made>>
       ELSE /\ raw_signals' = raw_signals \o FileSignals(files[fileIdx])
            /\ made' = made \o [n \in DOMAIN FileSignalIdx(files[fileIdx]) |->
                                    <<fileIdx, FileSignalIdx(files[fileIdx])[n]>>]
            /\ fileIdx' = fileIdx + 1
            /\ UNCHANGED <<pc, err>>
    /\ UNCHANGED <<files, comboIdx, loc, results, report, run, prev, btVars, parVars, unitVars>>

\* lines 93-106: an empty pool is reported and main returns
PoolReady ==
    /\ pc = "scan"
    /\ fileIdx > Len(files)
    /\ pc' = IF raw_signals = <<>> THEN "done" ELSE "grid"
    /\ results' = IF raw_signals = <<>> THEN results ELSE FreshResults
    /\ UNCHANGED <<files, fileIdx, raw_signals, comboIdx, loc, report, err>>
    /\ UNCHANGED <<made, run, prev, btVars, parVars, unitVars>>

\* lines 111-160: one combination
EvalCombination ==
    /\ pc = "grid"
    /\ comboIdx <= NCombos
    /\ LET p == ComboAt(comboIdx)
       IN  IF BelowFloor(CountTrue(EntryMask(raw_signals, p)))
           THEN UNCHANGED <<loc, results, raw_signals>>
           ELSE /\ loc' = Evaluate(raw_signals, p)
                /\ raw_signals' = PoolAfterAssign(raw_signals, loc')
                /\ results' = Append(results, CombinationResult(p, loc'.final_rets))
    /\ comboIdx' = comboIdx + 1
    /\ UNCHANGED <<files, pc, fileIdx, report, err, made, run, prev, btVars, parVars, unitVars>>

\* lines 108-160 once more: the grid loop run again on the pool it has just
\* evaluated, the results of the first run kept aside for comparison
Rerun ==
    /\ pc = "grid"
    /\ comboIdx > NCombos
    /\ run = 1
    /\ run' = 2
    /\ prev' = results
    /\ results' = FreshResults
    /\ comboIdx' = 1
    /\ UNCHANGED <<files, pc, fileIdx, raw_signals, loc, report, err, made>>
    /\ UNCHANGED <<btVars, parVars, unitVars>>

\* lines 162-170: with no result the frame has no column to sort by
Report ==
    /\ pc = "grid"
    /\ comboIdx > NCombos
    /\ IF results = <<>>
       THEN /\ pc' = "crashed"
            /\ err' = "KeyError"
            /\ UNCHANGED report
       ELSE /\ \E top \in TopOrders(results, DOMAIN results, TOP_K) :
                   report' = [i \in DOMAIN top |-> results[top[i]]]
            /\ pc' = "done"
            /\ UNCHANGED err
    /\ UNCHANGED <<files, fileIdx, raw_signals, comboIdx, loc, results>>
    /\ UNCHANGED <<made, run, prev, btVars, parVars, unitVars>>

-----------------------------------------------------------------------------
(* stock_scanner_go.py: one call of backtest_task.                          *)

BacktestTask ==
    /\ btpc = "call"
    /\ btRet' = backtest_task(btFile)
    /\ btpc' = "returned"
    /\ UNCHANGED <<btFile, gridVars, parVars, unitVars>>

-----------------------------------------------------------------------------
(* The coordinators.                                                        *)

ParStart(c) ==
    /\ coord = c
    /\ tstate = [t \in Tasks |-> "running"]
    /\ tres = [t \in Tasks |-> NoneResult]
    /\ order = <<>>
    /\ merged = <<>>
    /\ stats = NoStats
    /\ ppc = "collect"

Finish(t, r) ==
    /\ tstate[t] = "running"
    /\ tstate' = [tstate EXCEPT ![t] = "done"]
    /\ tres' = [tres EXCEPT ![t] = r]
    /\ UNCHANGED <<coord, order, merged, stats, ppc, gridVars, btVars, unitVars>>

\* a worker of Pool.map returns from backtest_task
BacktestTaskReturns == \E t \in Tasks : \E r \in GoResults : coord = "map" /\ Finish(t, r)

\* a worker of the executor returns from process_single_file
ProcessSingleFileReturns ==
    \E t \in Tasks : \E r \in FurongResults : coord = "as_completed" /\ Finish(t, r)

\* a worker of the executor returns from run_backtest
RunBacktestReturns ==
    \E t \in Tasks : \E r \in WeeklyResults : coord = "in_order" /\ Finish(t, r)

Taken == {order[i] : i \in DOMAIN order}

\* "for future in as_completed(future_to_file)" ends when every future has
\* been yielded, each of them once it is done
\* (SomeYielded: the variant where the loop ends after the first future)
SomeYielded == order # <<>>
AllYielded == Taken = Tasks

\* stock_scanner_go.py lines 189-195: map returns when every task is done
PoolMapReturns ==
    /\ coord = "map"
    /\ ppc = "collect"
    /\ \A t \in Tasks : tstate[t] = "done"
    /\ order' = [t \in Tasks |-> t]
    /\ merged' = MapFlatten(tres, 1)
    /\ stats' = StatsOf(merged')
    /\ ppc' = "done"
    /\ UNCHANGED <<coord, tstate, tres, gridVars, btVars, unitVars>>

\* furong_chushui_strategy.py lines 106-112: one turn of the as_completed loop;
\* res['backtest'] of a None that passes "if res:" raises
AsCompletedNext ==
    /\ coord = "as_completed"
    /\ ppc = "collect"
    /\ \E t \in Tasks \ Taken :
        /\ tstate[t] = "done"
        /\ order' = Append(order, t)
        /\ IF ~FurongTruthy(tres[t])
           THEN UNCHANGED <<merged, ppc>>
           ELSE IF tres[t].none
           THEN ppc' = "crashed" /\ UNCHANGED merged
           ELSE /\ merged' = IF tres[t].out # <<>> THEN Extend(merged, tres[t].out)
                             ELSE merged
                /\ UNCHANGED ppc
    /\ UNCHANGED <<coord, tstate, tres, stats, gridVars, btVars, unitVars>>

\* furong_chushui_strategy.py lines 114-127, after the loop
FurongSummary ==
    /\ coord = "as_completed"
    /\ ppc = "collect"
    /\ AllYielded
    /\ stats' = StatsOf(merged)
    /\ ppc' = "done"
    /\ UNCHANGED <<coord, tstate, tres, order, merged, gridVars, btVars, unitVars>>

\* weekly_strategy_backtest.py lines 85-86: f.result() of the next future
InOrderNext ==
    /\ coord = "in_order"
    /\ ppc = "collect"
    /\ Len(order) < MaxTasks
    /\ tstate[Len(order) + 1] = "done"
    /\ order' = Append(order, Len(order) + 1)
    /\ merged' = Extend(merged, tres[Len(order) + 1].out)
    /\ UNCHANGED <<coord, tstate, tres, stats, ppc, gridVars, btVars, unitVars>>

\* weekly_strategy_backtest.py lines 88-105 (the count, win rate and mean of
\* the summary row; its rounding, the per-year rows and the profit ratio are
\* not modelled)
WeeklySummary ==
    /\ coord = "in_order"
    /\ ppc = "collect"
    /\ Len(order) = MaxTasks
    /\ stats' = StatsOf(merged)
    /\ ppc' = "done"
    /\ UNCHANGED <<coord, tstate, tres, order, merged, gridVars, btVars, unitVars>>

-----------------------------------------------------------------------------
(* Specifications.                                                          *)

\* a run of backtest_optimization.py over a directory of up to MaxFiles files
Init ==
    /\ \E fs \in UNION {[1..n -> FileContents] : n \in 0..MaxFiles} : GridStart(fs)
    /\ BtOff
    /\ ParOff
    /\ UnitOff

Next == ScanFile \/ PoolReady \/ EvalCombination \/ Report

Spec == Init /\ [][Next]_vars

\* the evaluation of every trade of a small alphabet: the grid loop of
\* backtest_optimization.py over the pool of two instruments, and one call of
\* backtest_task
TradeInit ==
    /\ \/ (\E f \in TradeFiles : GridStart(<<SecondFile, f>>)) /\ BtOff
       \/ GridOff /\ btFile \in GoFiles /\ btRet = NoTrades /\ btpc = "call"
    /\ ParOff
    /\ UnitOff

TradeNext == ScanFile \/ PoolReady \/ EvalCombination \/ BacktestTask

SpecTrade == TradeInit /\ [][TradeNext]_vars

\* the grid loop of backtest_optimization.py evaluated twice on one pool
TwiceNext == ScanFile \/ PoolReady \/ EvalCombination \/ Rerun

SpecTwice == Init /\ [][TwiceNext]_vars

\* lines 162-170 applied to short lists of results: the rows are results of
\* the first combinations of the grid, in the order of evaluation, with a few
\* counts, win rates and mean returns
MaxRows == 3

RankRows(c) ==
    {[p |-> ComboAt(c), count |-> n, win |-> w, mean |-> m] :
        n \in {2, 3}, w \in {0, 5000, 10000}, m \in {-50, 100}}

\* the lists of results of some of the combinations c..MaxRows, in order
RECURSIVE RankListsFrom(_)
RankListsFrom(c) ==
    IF c > MaxRows THEN {<<>>}
    ELSE RankListsFrom(c + 1)
         \cup {<<r>> \o t : r \in RankRows(c), t \in RankListsFrom(c + 1)}

RankLists == RankListsFrom(1)

RankInit ==
    /\ \E rs \in RankLists :
          /\ files = <<>> /\ pc = "grid" /\ fileIdx = 1 /\ raw_signals = <<>>
          /\ comboIdx = NCombos + 1 /\ loc = NoLocals /\ results = rs
          /\ report = <<>> /\ err = Nil /\ made = <<>> /\ run = 1 /\ prev = <<>>
    /\ BtOff
    /\ ParOff
    /\ UnitOff

RankNext == Report

SpecRank == RankInit /\ [][RankNext]_vars

\* the three coordinators over MaxTasks instrument tasks
ParInit ==
    /\ GridOff
    /\ BtOff
    /\ UnitOff
    /\ \E c \in {"map", "as_completed", "in_order"} : ParStart(c)

ParNext ==
    \/ BacktestTaskReturns \/ ProcessSingleFileReturns \/ RunBacktestReturns
    \/ PoolMapReturns \/ AsCompletedNext \/ FurongSummary
    \/ InOrderNext \/ WeeklySummary

SpecPar == ParInit /\ [][ParNext]_vars

-----------------------------------------------------------------------------
(* weekly_strategy_backtest.py: run_backtest.  A week is a row of w_df after *)
(* the resampling and the rolling means: close, open, volume, MA5, MA10,    *)
(* V_MA5; prices in tenths.  i is the source's 0-based index: row i of the  *)
(* frame is w_df[i + 1]; prev_w is the source's prev.                       *)

\* for i in range(15, len(w_df) - 1): the first index
WK_START == 1

\* if len(w_df) < 20: return []
WK_MIN_LEN == 4

Week(c, o, m5, m10, v, vm5) ==
    [close |-> c, open |-> o, MA5 |-> m5, MA10 |-> m10, volume |-> v, V_MA5 |-> vm5]

\* df.iloc[idx] for a 0-based idx, a negative idx counting from the end
PyIloc(df, idx) == IF idx < 0 THEN df[Len(df) + idx + 1] ELSE df[idx + 1]

\* the five filters of lines 45-59, none of which continues
EntryFilters(curr, prev_w) ==
    /\ 50 <= curr.close /\ curr.close <= 200
    /\ ~(curr.MA10 <= prev_w.MA10 \/ curr.MA5 <= curr.MA10)
    /\ (IF curr.V_MA5 > 0 THEN curr.volume * 10 >= 15 * curr.V_MA5 ELSE FALSE)
    /\ (IF curr.MA5 > 0 THEN (curr.close - curr.MA5) * 100 <= 3 * curr.MA5 ELSE FALSE)
    /\ curr.close > curr.open

\* curr[close] < buy_p * 0.95 or curr['MA5'] < curr['MA10']
ExitRule(curr, bp) == curr.close * 100 < bp * 95 \/ curr.MA5 < curr.MA10

\* ((close - buy_p) / buy_p * 100) - 0.3, in percent
WeekProfit(close, bp) == RatAdd(Rat((close - bp) * 100, bp), Rat(-3, 10))

\* buy_p = w_df.iloc[i + 1]: the week bought in after a signal in week i
\* (BuyWeekSame: the variant that buys in the week of the signal)
BuyWeekSame(i) == i
BuyWeek(i) == i + 1

\* "elif in_pos": the exit is examined only when the position was open at
\* the start of the iteration
\* (IfInPos: the variant with a plain "if in_pos")
IfInPos(was_in, now_in) == now_in
ElifInPos(was_in, now_in) == was_in

\* range(15, len(w_df) - 1): the end of the range
\* (LoopEndAll: the variant that scans the last week too)
LoopEndAll(n) == n
LoopEnd(n) == n - 1

\* the instrument files of the model: five kinds of week after a first week
\* that only serves as prev_w
WeekKinds ==
    { Week(95, 96, 92, 90, 10, 20),     \* quiet, low averages
      Week(100, 98, 99, 95, 30, 20),    \* passes the filters after a lower MA10
      Week(102, 100, 101, 97, 30, 20),  \* the same, with a higher MA10
      Week(104, 105, 100, 96, 10, 20),  \* no entry, no exit
      Week(97, 99, 94, 96, 10, 20),     \* MA5 below MA10
      Week(90, 107, 97, 96, 10, 20) }   \* a gap up at the open, then a low close

\* the largest number of weeks of a file
MaxWeeks == 5

WeekFiles ==
    { [kind |-> "ok", weeks |-> ws] :
        ws \in UNION {[1..n -> WeekKinds] : n \in (WK_MIN_LEN - 1)..MaxWeeks} }
    \cup
    { [kind |-> "unreadable", weeks |-> <<>>],
      \* a code outside 60 / 00, and an ST name
      [kind |-> "filtered", weeks |-> [n \in 1..WK_MIN_LEN |-> Week(100, 98, 99, 95, 30, 20)]],
      [kind |-> "st", weeks |-> [n \in 1..WK_MIN_LEN |-> Week(100, 98, 99, 95, 30, 20)]] }

\* lines 10-38: the filters, the read, the resampling and the length test
RunBacktestCall ==
    /\ wpc = "call"
    /\ IF wkFile.kind # "ok" \/ Len(wkFile.weeks) < WK_MIN_LEN
       THEN /\ wpc' = "returned"
            /\ UNCHANGED <<w_df, wi>>
       ELSE /\ wpc' = "loop"
            /\ w_df' = wkFile.weeks
            /\ wi' = WK_START
    /\ in_pos' = FALSE /\ buy_p' = 0 /\ buy_d' = 0 /\ trades' = <<>>
    /\ UNCHANGED <<wkFile, wlog, gridVars, btVars, parVars, fuVars, indVars>>

\* one iteration of the loop of lines 40-73; an index outside the frame
\* raises, and the bare except returns []
WeekIteration ==
    /\ wpc = "loop"
    /\ wi < LoopEnd(Len(w_df))
    /\ LET curr   == PyIloc(w_df, wi)
           prev_w   == PyIloc(w_df, wi - 1)
           enters == ~in_pos /\ EntryFilters(curr, prev_w)
           raises == enters /\ BuyWeek(wi) + 1 > Len(w_df)
           bp     == IF enters THEN PyIloc(w_df, BuyWeek(wi)).open ELSE buy_p
           exits  == /\ ElifInPos(in_pos, in_pos \/ enters)
                     /\ ExitRule(curr, bp)
       IN  IF raises
           THEN /\ trades' = <<>> /\ wpc' = "returned"
                /\ UNCHANGED <<wi, in_pos, buy_p, buy_d, wlog>>
           ELSE /\ buy_p' = bp
                /\ buy_d' = IF enters THEN BuyWeek(wi) ELSE buy_d
                /\ in_pos' = ((in_pos \/ enters) /\ ~exits)
                /\ trades' = IF exits
                             THEN Append(trades, [buy_d  |-> buy_d',
                                                  profit |-> WeekProfit(curr.close, bp)])
                             ELSE trades
                /\ wlog' = wlog \o (IF enters THEN << <<"entry", wi>> >> ELSE <<>>)
                                \o (IF exits THEN << <<"exit", wi>> >> ELSE <<>>)
                /\ wi' = wi + 1
                /\ wpc' = "loop"
    /\ UNCHANGED <<wkFile, w_df, gridVars, btVars, parVars, fuVars, indVars>>

\* return trades
RunBacktestReturn ==
    /\ wpc = "loop"
    /\ wi >= LoopEnd(Len(w_df))
    /\ wpc' = "returned"
    /\ UNCHANGED <<wkFile, w_df, wi, in_pos, buy_p, buy_d, trades, wlog>>
    /\ UNCHANGED <<gridVars, btVars, parVars, fuVars, indVars>>

WeeklyInit ==
    /\ GridOff /\ BtOff /\ ParOff /\ FuOff /\ IndOff
    /\ wkFile \in WeekFiles
    /\ w_df = <<>> /\ wi = 0 /\ in_pos = FALSE /\ buy_p = 0 /\ buy_d = 0
    /\ trades = <<>> /\ wlog = <<>> /\ wpc = "call"

WeeklyNext == RunBacktestCall \/ WeekIteration \/ RunBacktestReturn

SpecWeekly == WeeklyInit /\ [][WeeklyNext]_vars

-----------------------------------------------------------------------------
(* furong_chushui_strategy.py: check_signal and process_single_file.  A bar *)
(* is a row of df after the rolling means: prices in tenths, the change in  *)
(* tenths of a percent.                                                     *)

\* check_signal: if idx < 60: return False
FU_MIN_IDX == 2

\* process_single_file: len(df) < 70
FU_MIN_LEN == 3

FuBar(c, o, m5, m10, m20, m60, chg, v, vm5) ==
    [close |-> c, open |-> o, ma5 |-> m5, ma10 |-> m10, ma20 |-> m20,
     ma60 |-> m60, change |-> chg, volume |-> v, v_ma5 |-> vm5]


check_signal(df, idx) ==
    IF idx < FU_MIN_IDX THEN FALSE
    ELSE LET curr == PyIloc(df, idx)
             is_cross ==
                 /\ \A ma \in {curr.ma5, curr.ma10, curr.ma20, curr.ma60} : curr.close > ma
                 /\ \A ma \in {curr.ma5, curr.ma10, curr.ma20} : curr.open < ma
             is_strong == curr.change > 45
             volume_ok == IF curr.v_ma5 # 0 THEN curr.volume * 10 > 15 * curr.v_ma5
                          ELSE FALSE
         IN  IF ~(50 <= curr.close /\ curr.close <= 200) THEN FALSE
             ELSE is_cross /\ is_strong /\ volume_ok

\* for i in range(60, len(df) - 5): the profits appended from index i on
RECURSIVE SampleFrom(_, _)
SampleFrom(df, i) ==
    IF i >= Len(df) - 5 THEN <<>>
    ELSE (IF check_signal(df, i)
          THEN <<PriceRet(PyIloc(df, i + 3).close, PyIloc(df, i + 1).open)>>
          ELSE <<>>)
         \o SampleFrom(df, i + 1)

\* the score of today's signal: 70, + 20 for a change >= 9.8
TodaySignal(df) ==
    IF check_signal(df, -1)
    THEN [none |-> FALSE, score |-> 70 + (IF PyIloc(df, -1).change >= 98 THEN 20 ELSE 0)]
    ELSE NoToday

process_single_file(file) ==
    IF file.kind # "ok" \/ Len(file.bars) < FU_MIN_LEN THEN FuNone
    ELSE [none |-> FALSE, backtest |-> SampleFrom(file.bars, FU_MIN_IDX),
          today |-> TodaySignal(file.bars)]

\* the bars of the model: the pattern with a change of 5% and of 10%, a bar
\* that rises without crossing the averages, and a quiet bar
FuKinds ==
    { FuBar(110, 100, 102, 103, 104, 105, 50, 40, 20),
      FuBar(110, 100, 102, 103, 104, 105, 100, 40, 20),
      FuBar(106, 104, 102, 103, 104, 105, 50, 40, 20),
      FuBar(104, 105, 102, 103, 104, 105, -10, 20, 20) }

\* the largest number of rows of a file
MaxBars == 8

FurongFiles ==
    { [kind |-> "ok", bars |-> bs] :
        bs \in UNION {[1..n -> FuKinds] : n \in (FU_MIN_LEN - 1)..(FU_MIN_LEN + 1)} }
    \cup
    { [kind |-> "ok", bars |-> [n \in 1..2 |-> FuBar(104, 105, 102, 103, 104, 105, -10, 20, 20)] \o bs] :
        bs \in UNION {[1..n -> FuKinds] : n \in (MaxBars - 3)..(MaxBars - 2)} }
    \cup
    { [kind |-> "unreadable", bars |-> <<>>],
      \* an ST name or a code that starts with 30
      [kind |-> "filtered", bars |-> [n \in 1..MaxBars |-> FuBar(110, 100, 102, 103, 104, 105, 50, 40, 20)]] }

ProcessSingleFile ==
    /\ fupc = "call"
    /\ fuRet' = process_single_file(fuFile)
    /\ fupc' = "returned"
    /\ UNCHANGED <<fuFile, gridVars, btVars, parVars, wkVars, indVars>>

FurongInit ==
    /\ GridOff /\ BtOff /\ ParOff /\ WkOff /\ IndOff
    /\ fuFile \in FurongFiles /\ fuRet = FuNone /\ fupc = "call"

FurongNext == ProcessSingleFile

SpecFurong == FurongInit /\ [][FurongNext]_vars

-----------------------------------------------------------------------------
(* stock_scanner_go.py: calculate_indicators and get_signals_fast computed  *)
(* from the rows of a file.  A value of an array is [nan, v]: NaN, or the   *)
(* exact rational v.  Prices are in tenths, the turnover in percent; the    *)
(* rolling windows of 5, 20, 9, 3 and 30 rows become 2 rows, the window of  *)
(* 60 rows GO_MA60_WIN, and the 1e-9 of the zero guards 1/1000.             *)

NaN == [nan |-> TRUE, v |-> RatZero]
Num(r) == [nan |-> FALSE, v |-> r]
FInt(x) == Num(Rat(x, 1))

\* rational arithmetic that cancels common factors before it multiplies, to
\* stay within the integers of the checker
QAdd(a, b) ==
    LET g == GCD(a.d, b.d)
    IN  Rat(a.n * (b.d \div g) + b.n * (a.d \div g), (a.d \div g) * b.d)
QMul(a, b) ==
    LET g1 == GCD(Abs(a.n), b.d)
        g2 == GCD(Abs(b.n), a.d)
    IN  Rat((a.n \div g1) * (b.n \div g2), (a.d \div g2) * (b.d \div g1))
QLE(a, b) == LET g == GCD(a.d, b.d) IN a.n * (b.d \div g) <= b.n * (a.d \div g)
QLT(a, b) == LET g == GCD(a.d, b.d) IN a.n * (b.d \div g) < b.n * (a.d \div g)

\* arithmetic of numpy on float64 with NaN; no divisor is zero past a guard
FAdd(a, b) == IF a.nan \/ b.nan THEN NaN ELSE Num(QAdd(a.v, b.v))
FSub(a, b) ==
    IF a.nan \/ b.nan THEN NaN ELSE Num(QAdd(a.v, [n |-> -b.v.n, d |-> b.v.d]))
FMul(a, b) == IF a.nan \/ b.nan THEN NaN ELSE Num(QMul(a.v, b.v))
FDiv(a, b) ==
    IF a.nan \/ b.nan \/ b.v.n = 0 THEN NaN
    ELSE Num(QMul(a.v, IF b.v.n < 0 THEN [n |-> -b.v.d, d |-> -b.v.n]
                       ELSE [n |-> b.v.d, d |-> b.v.n]))

\* a comparison with NaN is false
FLE(a, b) == ~a.nan /\ ~b.nan /\ QLE(a.v, b.v)
FLT(a, b) == ~a.nan /\ ~b.nan /\ QLT(a.v, b.v)

\* the 1e-9 that replaces a zero divisor
EPS == Num(Rat(1, 1000))

\* np.where(x == 0, e, x)
\* (WhereZeroOne: the variant that replaces a zero by 1)
WhereZeroOne(x, e) == IF ~x.nan /\ x.v.n = 0 THEN FInt(1) ELSE x
WhereZero(x, e) == IF ~x.nan /\ x.v.n = 0 THEN e ELSE x

\* the windows of rolling(5), rolling(20), rolling(9), rolling(3) for the
\* amplitude, shift(1).rolling(5), shift(1).rolling(3) and rolling(30)
GO_MA5_WIN == 2
GO_MA20_WIN == 2
GO_KDJ_WIN == 2
GO_AMP_WIN == 2
GO_VOL_WIN == 2
GO_LOW_WIN == 2
GO_TURN_WIN == 2

\* the column of a frame as an array
Column(df, field) == [i \in 1..Len(df) |-> FInt(df[i][field])]

RECURSIVE SumOver(_, _, _)
SumOver(x, a, b) == IF a > b THEN RatZero ELSE QAdd(x[a].v, SumOver(x, a + 1, b))

\* whether the window of w rows that ends at i is complete and free of NaN
Filled(x, i, w) == i >= w /\ \A j \in (i - w + 1)..i : ~x[j].nan

\* pd.Series(x).rolling(w).mean(), .min(), .max()
RollingMean(x, w) ==
    [i \in 1..Len(x) |->
        IF Filled(x, i, w) THEN Num(QMul(SumOver(x, i - w + 1, i), Rat(1, w))) ELSE NaN]
RollingMin(x, w) ==
    [i \in 1..Len(x) |->
        IF Filled(x, i, w)
        THEN x[CHOOSE j \in (i - w + 1)..i : \A k \in (i - w + 1)..i : FLE(x[j], x[k])]
        ELSE NaN]
RollingMax(x, w) ==
    [i \in 1..Len(x) |->
        IF Filled(x, i, w)
        THEN x[CHOOSE j \in (i - w + 1)..i : \A k \in (i - w + 1)..i : FLE(x[k], x[j])]
        ELSE NaN]

\* pd.Series(x).shift(1)
Shift1(x) == [i \in 1..Len(x) |-> IF i = 1 THEN NaN ELSE x[i - 1]]

\* np.roll(x, 1): the last element comes first
\* (RollNext: np.roll(x, -1), the first element goes last)
RollNext(x) == [i \in 1..Len(x) |-> IF i = Len(x) THEN x[1] ELSE x[i + 1]]
Roll(x) == [i \in 1..Len(x) |-> IF i = 1 THEN x[Len(x)] ELSE x[i - 1]]

\* np.diff(x, prepend=x[0])
Diff(x) == [i \in 1..Len(x) |-> IF i = 1 THEN FInt(0) ELSE FSub(x[i], x[i - 1])]

\* pd.Series(x).pct_change()
PctChange(x) ==
    [i \in 1..Len(x) |-> IF i = 1 THEN NaN ELSE FDiv(FSub(x[i], x[i - 1]), x[i - 1])]

\* pd.Series(x).ewm(alpha=a, adjust=False).mean(): the values from position
\* t on, y being the value before; a NaN input repeats the value before
RECURSIVE EwmFrom(_, _, _, _)
EwmFrom(x, a, t, y) ==
    IF t > Len(x) THEN <<>>
    ELSE LET yt == IF x[t].nan THEN y
                   ELSE IF y.nan THEN x[t]
                   ELSE FAdd(FMul(Num(Rat(a.d - a.n, a.d)), y), FMul(Num(a), x[t]))
         IN  <<yt>> \o EwmFrom(x, a, t + 1, yt)

\* up and dn of lines 62-63, smoothed by rma(., 6)
SmoothedUp(close) ==
    LET delta == Diff(close)
    IN  EwmFrom([i \in 1..Len(close) |->
                    IF FLT(FInt(0), delta[i]) THEN delta[i] ELSE FInt(0)],
                Rat(1, 6), 1, NaN)
SmoothedDn(close) ==
    LET delta == Diff(close)
    IN  EwmFrom([i \in 1..Len(close) |->
                    IF FLT(delta[i], FInt(0)) THEN FSub(FInt(0), delta[i]) ELSE FInt(0)],
                Rat(1, 6), 1, NaN)

\* rsi6 = 100 - (100 / (1 + (rma(up, 6) / np.where(rma(dn, 6) == 0, 1e-9, rma(dn, 6)))))
Rsi6(close) ==
    LET up == SmoothedUp(close)
        dn == SmoothedDn(close)
    IN  [i \in 1..Len(close) |->
            FSub(FInt(100),
                 FDiv(FInt(100), FAdd(FInt(1), FDiv(up[i], WhereZero(dn[i], EPS)))))]

\* lines 68-71: kdj_k
KdjK(close, high, low) ==
    LET low_9  == RollingMin(low, GO_KDJ_WIN)
        high_9 == RollingMax(high, GO_KDJ_WIN)
        rsv    == [i \in 1..Len(close) |->
                      FMul(FDiv(FSub(close[i], low_9[i]),
                                WhereZero(FSub(high_9[i], low_9[i]), EPS)),
                           FInt(100))]
    IN  EwmFrom(rsv, Rat(1, 3), 1, NaN)

\* lines 61-100 of calculate_indicators: the arrays returned
IndicatorArrays(df) ==
    LET close    == Column(df, "close")
        high     == Column(df, "high")
        low      == Column(df, "low")
        vol      == Column(df, "vol")
        turnover == Column(df, "turnover")
        N        == 1..Len(df)
        ma5      == RollingMean(close, GO_MA5_WIN)
        ma60     == RollingMean(close, GO_MA60_WIN)
        vol_ma5  == RollingMean(Shift1(vol), GO_VOL_WIN)
        amplitude == [i \in N |-> FDiv(FSub(high[i], low[i]), WhereZero(close[i], FInt(1)))]
        pct      == PctChange(close)
    IN  [close |-> close, low |-> low, high |-> high,
         rsi6 |-> Rsi6(close),
         kdj_k |-> KdjK(close, high, low),
         ma5 |-> ma5,
         ma20 |-> RollingMean(close, GO_MA20_WIN),
         ma60 |-> ma60,
         vol_ratio |-> [i \in N |-> FDiv(vol[i], WhereZero(vol_ma5[i], EPS))],
         ma5_change |-> [i \in N |->
             FDiv(FSub(ma5[i], Roll(ma5)[i]), WhereZero(ma5[i], FInt(1)))],
         avg_amp_3 |-> RollingMean(amplitude, GO_AMP_WIN),
         min_3d_low |-> RollingMin(Shift1(low), GO_LOW_WIN),
         change |-> [i \in N |-> FMul(pct[i], FInt(100))],
         avg_turnover_30 |-> RollingMean(turnover, GO_TURN_WIN),
         potential |-> [i \in N |->
             FMul(FDiv(FSub(ma60[i], close[i]), WhereZero(close[i], FInt(1))), FInt(100))]]

\* calculate_indicators: None for a short frame or a missing column
calculate_indicators(file) ==
    IF file.kind # "ok" \/ Len(file.rows) < GO_MIN_BARS THEN IndNone
    ELSE [none |-> FALSE, a |-> IndicatorArrays(file.rows)]

\* the thresholds of lines 17-29
MIN_PRICE == 50
MAX_AVG_TURNOVER_30 == Num(Rat(25, 10))
MIN_PROFIT_POTENTIAL == 25
RSI_MAX == 25
KDJ_K_MAX == 25
MAX_TODAY_CHANGE == 3
SHRINK_VOL_MAX == Num(Rat(85, 100))
ADD_POS_VOL_RATIO == Num(Rat(15, 10))

\* get_signals_fast on the arrays: np.select takes the first true condition
SignalLabels(a) ==
    LET N == 1..Len(a.close)
        basic_filter(i) ==
            /\ FLE(FInt(MIN_PROFIT_POTENTIAL), a.potential[i])
            /\ FLE(FInt(MIN_PRICE), a.close[i])
            /\ FLE(a.avg_turnover_30[i], MAX_AVG_TURNOVER_30)
            /\ FLE(a.change[i], FInt(MAX_TODAY_CHANGE))
        entry_confirm(i) ==
            FLE(a.ma5[i], a.close[i]) /\ FLE(a.min_3d_low[i], a.low[i])
        sig_base_build(i) ==
            /\ FLE(a.rsi6[i], FInt(30))
            /\ FLE(Num(Rat(-5, 1000)), a.ma5_change[i])
            /\ FLE(a.avg_amp_3[i], Num(Rat(25, 1000)))
            /\ FLE(a.vol_ratio[i], SHRINK_VOL_MAX)
            /\ entry_confirm(i) /\ basic_filter(i)
        sig_break(i) ==
            /\ FLE(a.rsi6[i], FInt(RSI_MAX))
            /\ FLE(a.kdj_k[i], FInt(KDJ_K_MAX))
            /\ FLT(SHRINK_VOL_MAX, a.vol_ratio[i])
            /\ FLE(a.vol_ratio[i], FInt(2))
            /\ FLT(FInt(0), a.change[i])
            /\ entry_confirm(i) /\ basic_filter(i)
        prev_rsi == Roll(a.rsi6)
        prev_vol == Roll(a.vol_ratio)
        sig_add(i) ==
            /\ FLE(prev_rsi[i], FInt(RSI_MAX))
            /\ FLE(prev_vol[i], SHRINK_VOL_MAX)
            /\ FLE(ADD_POS_VOL_RATIO, a.vol_ratio[i])
            /\ FLT(FInt(0), a.change[i])
            /\ entry_confirm(i) /\ basic_filter(i)
    IN  [i \in N |-> IF sig_add(i) THEN "add"
                     ELSE IF sig_break(i) THEN "break"
                     ELSE IF sig_base_build(i) THEN "base_build"
                     ELSE Nil]

\* the rows of the model: a plateau, a fall of a half, a rise of 2% on a
\* larger volume, a quiet day on a small volume
Row(c, h, l, v, t) == [close |-> c, high |-> h, low |-> l, vol |-> v, turnover |-> t]

RowKinds ==
    { Row(100, 101, 99, 100, 1), Row(50, 100, 49, 100, 1),
      Row(51, 52, 50, 150, 1), Row(50, 51, 50, 50, 1) }

\* the largest number of rows of a series
MaxSeries == 5

\* series whose close rises on every row, by one of a few steps
RECURSIVE RisingFrom(_, _)
RisingFrom(c, n) ==
    IF n = 0 THEN {<<>>}
    ELSE {<<Row(c, c + 1, c - 1, 100, 1)>> \o t : t \in UNION {RisingFrom(c + k, n - 1) : k \in {1, 3}}}

SeriesFiles ==
    { [kind |-> "ok", rows |-> rs] :
        rs \in UNION {[1..n -> RowKinds] : n \in (GO_MIN_BARS - 1)..MaxSeries} }
    \cup
    { [kind |-> "ok", rows |-> rs] :
        rs \in UNION {RisingFrom(50, n) : n \in GO_MIN_BARS..MaxSeries} }
    \cup
    { [kind |-> "nocolumn", rows |-> [n \in 1..GO_MIN_BARS |-> Row(50, 51, 50, 50, 1)]] }

\* ind = calculate_indicators(df)
CalculateIndicators ==
    /\ gopc = "call"
    /\ goInd' = calculate_indicators(goDf)
    /\ gopc' = "indicators"
    /\ UNCHANGED <<goDf, goSigs, gridVars, btVars, parVars, wkVars, fuVars>>

\* if ind is None: return None; sigs = get_signals_fast(ind)
GetSignals ==
    /\ gopc = "indicators"
    /\ IF goInd.none
       THEN gopc' = "returned" /\ UNCHANGED goSigs
       ELSE gopc' = "signals" /\ goSigs' = SignalLabels(goInd.a)
    /\ UNCHANGED <<goDf, goInd, gridVars, btVars, parVars, wkVars, fuVars>>

IndInit ==
    /\ GridOff /\ BtOff /\ ParOff /\ WkOff /\ FuOff
    /\ goDf \in SeriesFiles /\ goInd = IndNone /\ goSigs = <<>> /\ gopc = "call"

IndNext == CalculateIndicators \/ GetSignals

SpecInd == IndInit /\ [][IndNext]_vars


-----------------------------------------------------------------------------
(* The exit rules as the specification words them, for one candidate s, one *)
(* combination p and one day j of the forward window.                       *)

\* the low is at or below entry_price * (1 + stop_loss)
StopBreached(s, p, j) == s.f_low[j] * 100 <= s.entry_p * (100 + p.p_stop)

KdjReversal(s, p, j) == s.f_k[j] > p.p_k_lvl /\ s.f_k[j] < s.f_d[j]

MacdWeak(s, j) == s.f_macd_h[j] < 0

AnyRule(s, p, j) == StopBreached(s, p, j) \/ KdjReversal(s, p, j) \/ MacdWeak(s, j)

\* j is the first day, of the p_hold days, on which a rule is true
FirstRuleDay(s, p, j) ==
    /\ j \in 1..p.p_hold
    /\ AnyRule(s, p, j)
    /\ \A k \in 1..(j - 1) : ~AnyRule(s, p, k)

\* the candidates the last evaluated combination selected, in row order
Sel == BoolIndex(raw_signals, loc.mask)

Rows == DOMAIN loc.final_rets

\* the signal positions backtest_task trades, in order
GoTraded(bars) ==
    LET S == {i \in 1..Len(bars) :
                 i >= GO_MA60_WIN /\ bars[i].sig /\ i + HOLD_DAYS <= Len(bars)}
    IN  CHOOSE f \in [1..Cardinality(S) -> S] : \A a, b \in 1..Cardinality(S) : a < b => f[a] < f[b]

\* in backtest_task, day is the first day on which a rule of the loop is true
GoFirstRuleDay(bars, i, day) ==
    LET hit(d) == \/ StopHit(bars[i + d].low, bars[i].close)
                  \/ Ma60Hit(bars[i + d])
                  \/ Ma20Hit(bars[i + d], bars[i].close)
    IN  day \in 1..HOLD_DAYS /\ hit(day) /\ \A d \in 1..(day - 1) : ~hit(d)

-----------------------------------------------------------------------------
(* Claims.                                                                  *)

\* C1: when the hard stop-loss and another exit rule (KDJ reversal, MACD
\* weakening; MA60 or MA20 take-profit in backtest_task) are both true on the
\* day a trade exits, the recorded return is exactly the stop-loss fraction.
C1_StopOutranks ==
    /\ \A i \in Rows : \A j \in 1..loc.p.p_hold :
          (/\ FirstRuleDay(Sel[i], loc.p, j)
           /\ StopBreached(Sel[i], loc.p, j)
           /\ (KdjReversal(Sel[i], loc.p, j) \/ MacdWeak(Sel[i], j)))
          => loc.final_rets[i] = Pct(loc.p.p_stop)
    /\ (btpc = "returned" /\ ~btRet.none) =>
          /\ Len(btRet.trades) = Len(GoTraded(btFile.bars))
          /\ \A n \in DOMAIN btRet.trades : \A day \in 1..HOLD_DAYS :
                LET i == GoTraded(btFile.bars)[n]
                    b == btFile.bars[i + day]
                IN  (/\ GoFirstRuleDay(btFile.bars, i, day)
                     /\ StopHit(b.low, btFile.bars[i].close)
                     /\ (Ma60Hit(b) \/ Ma20Hit(b, btFile.bars[i].close)))
                    => btRet.trades[n] = Pct(STOP_LOSS_LIMIT)

\* a trade of the grid that exits on a day with the stop and an indicator
\* rule both true, whose close that day implies another return
C1_Witness ==
    \E i \in Rows : \E j \in 1..loc.p.p_hold :
        /\ FirstRuleDay(Sel[i], loc.p, j)
        /\ StopBreached(Sel[i], loc.p, j)
        /\ (KdjReversal(Sel[i], loc.p, j) \/ MacdWeak(Sel[i], j))
        /\ Rat(Sel[i].f_close[j] - Sel[i].entry_p, Sel[i].entry_p) # Pct(loc.p.p_stop)
        /\ loc.final_rets[i] = Pct(loc.p.p_stop)

\* C2 as stated: whenever the minimum low of the first p_hold days is at or
\* below entry_price * (1 + stop_loss), the return is exactly stop_loss.
C2_StopWheneverBreached ==
    \A i \in Rows :
        (\E j \in 1..loc.p.p_hold : StopBreached(Sel[i], loc.p, j))
        => loc.final_rets[i] = Pct(loc.p.p_stop)

\* C2 amended: the return is exactly stop_loss when the low breaches the stop
\* on a day before which no KDJ reversal and no MACD weakening is true.
C2_StopWhenBreachedFirst ==
    \A i \in Rows :
        (\E j \in 1..loc.p.p_hold :
            /\ StopBreached(Sel[i], loc.p, j)
            /\ \A k \in 1..(j - 1) :
                  ~KdjReversal(Sel[i], loc.p, k) /\ ~MacdWeak(Sel[i], k))
        => loc.final_rets[i] = Pct(loc.p.p_stop)

\* a breach after the first day, no indicator rule before it, the touched low
\* and the close of that day both implying a larger loss than the stop
C2_Witness ==
    \E i \in Rows : \E j \in 2..loc.p.p_hold :
        /\ StopBreached(Sel[i], loc.p, j)
        /\ \A k \in 1..(j - 1) : ~AnyRule(Sel[i], loc.p, k)
        /\ RatLT(Rat(Sel[i].f_low[j] - Sel[i].entry_p, Sel[i].entry_p), Pct(loc.p.p_stop))
        /\ RatLT(Rat(Sel[i].f_close[j] - Sel[i].entry_p, Sel[i].entry_p), Pct(loc.p.p_stop))
        /\ loc.final_rets[i] = Pct(loc.p.p_stop)

\* C3: when a rule is true within the first p_hold days, the exit day is the
\* first such day and the return is that day's: the stop fraction if the stop
\* is breached that day, else the return of that day's close.
C3_FirstTrigger ==
    \A i \in Rows : \A j \in 1..loc.p.p_hold :
        FirstRuleDay(Sel[i], loc.p, j) =>
            /\ loc.has_exit[i]
            /\ loc.first_exit[i] = j
            /\ loc.final_rets[i] =
                  IF StopBreached(Sel[i], loc.p, j) THEN Pct(loc.p.p_stop)
                  ELSE Rat(Sel[i].f_close[j] - Sel[i].entry_p, Sel[i].entry_p)

\* an indicator exit on a day before the last, with a stop breach on a later day
C3_Witness ==
    \E i \in Rows : \E j \in 1..loc.p.p_hold : \E k \in 1..loc.p.p_hold :
        /\ FirstRuleDay(Sel[i], loc.p, j)
        /\ ~StopBreached(Sel[i], loc.p, j)
        /\ j < k
        /\ StopBreached(Sel[i], loc.p, k)
        /\ loc.first_exit[i] = j
        /\ loc.final_rets[i] # Pct(loc.p.p_stop)

\* C4: a trade with no rule true on any of its p_hold days does not exit on
\* the first day: its return is that of the close of day p_hold; a trade
\* exits in the first column only if a rule is true there.
C4_NoExitRunsToHorizon ==
    \A i \in Rows :
        /\ (\A j \in 1..loc.p.p_hold : ~AnyRule(Sel[i], loc.p, j)) =>
              /\ ~loc.has_exit[i]
              /\ loc.final_rets[i] =
                    Rat(Sel[i].f_close[loc.p.p_hold] - Sel[i].entry_p, Sel[i].entry_p)
        /\ (loc.has_exit[i] /\ loc.first_exit[i] = 1) => AnyRule(Sel[i], loc.p, 1)

\* a trade no rule closes, whose first close differs from its last
C4_Witness ==
    \E i \in Rows :
        /\ \A j \in 1..loc.p.p_hold : ~AnyRule(Sel[i], loc.p, j)
        /\ Sel[i].f_close[1] # Sel[i].f_close[loc.p.p_hold]
        /\ loc.final_rets[i] =
              Rat(Sel[i].f_close[loc.p.p_hold] - Sel[i].entry_p, Sel[i].entry_p)

\* the number of candidates of the pool that pass the entry filter of p
SubsetSize(p) ==
    Cardinality({i \in DOMAIN raw_signals :
                    raw_signals[i].pot >= p.p_pot /\ raw_signals[i].rsi <= p.p_rsi})

Emitted(p) == \E n \in DOMAIN results : results[n].p = p

\* C5: a combination whose filtered subset is below the floor emits no
\* CombinationResult, every emitted one counts at least the floor, and a
\* subset of exactly the floor is emitted.
C5_FloorRespected ==
    /\ \A n \in DOMAIN results :
          /\ results[n].count >= MIN_TRADES_FILTER
          /\ results[n].count = SubsetSize(results[n].p)
    /\ \A k \in 1..(comboIdx - 1) :
          Emitted(ComboAt(k)) <=> SubsetSize(ComboAt(k)) >= MIN_TRADES_FILTER

\* one evaluated combination at the floor, another below it and not empty
C5_Witness ==
    /\ \E k \in 1..(comboIdx - 1) :
          SubsetSize(ComboAt(k)) = MIN_TRADES_FILTER /\ Emitted(ComboAt(k))
    /\ \E k \in 1..(comboIdx - 1) :
          /\ SubsetSize(ComboAt(k)) > 0
          /\ SubsetSize(ComboAt(k)) < MIN_TRADES_FILTER
          /\ ~Emitted(ComboAt(k))

\* the pool of the end-to-end scenario: a is the candidate entered at 10.0,
\* b the one entered at 20.0, and no rule of p fires for either
ScenarioPool(p, a, b) ==
    /\ DOMAIN raw_signals = {a, b} /\ a # b
    /\ raw_signals[a].entry_p = 100 /\ raw_signals[a].f_close = <<102, 105, 95>>
    /\ raw_signals[b].entry_p = 200 /\ raw_signals[b].f_close = <<204, 208, 212>>
    /\ p.p_hold = 3 /\ p.p_stop = -8
    /\ MIN_TRADES_FILTER <= 2
    /\ SubsetSize(p) = 2
    /\ \A i \in {a, b} : \A j \in 1..3 : ~AnyRule(raw_signals[i], p, j)

\* C6: the two candidates of the scenario return -0.05 and 0.06, and the
\* CombinationResult has count 2, win rate 0.5 and mean return 0.005.
C6_Scenario ==
    \A a, b \in DOMAIN raw_signals :
        /\ \A n \in DOMAIN results :
              ScenarioPool(results[n].p, a, b) =>
                  /\ results[n].count = 2
                  /\ results[n].win = 5000
                  /\ results[n].mean = 50
        /\ (Rows # {} /\ ScenarioPool(loc.p, a, b)) =>
              /\ loc.final_rets[a] = Pct(-5)
              /\ loc.final_rets[b] = Pct(6)

C6_Witness ==
    \E a, b \in DOMAIN raw_signals : \E n \in DOMAIN results :
        /\ ScenarioPool(results[n].p, a, b)
        /\ loc.p = results[n].p
        /\ loc.final_rets[a] = Pct(-5)
        /\ loc.final_rets[b] = Pct(6)
        /\ results[n].count = 2 /\ results[n].win = 5000 /\ results[n].mean = 50

\* a file whose read, columns or length make the indicators unavailable
FileFails(df) == df.kind # "ok" \/ Len(df.bars) < MIN_BARS

RECURSIVE PoolOf(_, _)
PoolOf(fs, n) ==
    IF n = 0 THEN <<>>
    ELSE PoolOf(fs, n - 1)
         \o (IF FileFails(fs[n]) THEN <<>> ELSE SignalsFrom(Indicators(fs[n].bars), 1))

\* C7: an instrument whose parse or computation fails contributes no
\* candidate, and the run goes on to every remaining instrument: main ends
\* only after the last file.
C7_IsolatedFailure ==
    /\ raw_signals = PoolOf(files, fileIdx - 1)
    /\ pc \in {"done", "crashed"} => fileIdx > Len(files)

\* the outputs of the tasks taken so far, in the order taken; a None adds nothing
RECURSIVE TakenOutputs(_)
TakenOutputs(o) ==
    IF o = <<>> THEN <<>>
    ELSE (IF tres[Head(o)].none THEN <<>> ELSE tres[Head(o)].out) \o TakenOutputs(Tail(o))

\* C8: a failing task cancels no sibling and alters no result: the
\* coordinator never stops on it, every task runs to its end, and the merged
\* list is the concatenation of the outputs of the tasks that did not fail.
C8_FailureIsolated ==
    /\ ppc # "crashed"
    /\ ppc \in {"collect", "done"} => merged = TakenOutputs(order)
    /\ ppc = "done" =>
          /\ \A t \in Tasks : tstate[t] = "done"
          /\ Taken = Tasks

\* the first task taken by the as_completed loop failed, a sibling delivered
C8_Witness ==
    /\ coord = "as_completed"
    /\ ppc = "done"
    /\ tres[order[1]].none
    /\ \E t \in Tasks : ~tres[t].none /\ Len(tres[t].out) = 2
    /\ merged # <<>>

BagOfSeq(q) ==
    [x \in {q[i] : i \in DOMAIN q} |-> Cardinality({i \in DOMAIN q : q[i] = x})]

\* the outputs of all tasks in file order
FileOrderOutputs == TakenOutputs([t \in Tasks |-> t])

\* C9: whatever the order in which the tasks complete, the merged pool is the
\* same multiset and the statistics computed from it are the same.
C9_OrderIndependent ==
    ppc = "done" =>
        /\ BagOfSeq(merged) = BagOfSeq(FileOrderOutputs)
        /\ stats = StatsOf(FileOrderOutputs)

\* results taken out of file order, the merged list differing from file order
C9_Witness ==
    /\ coord = "as_completed"
    /\ ppc = "done"
    /\ merged # FileOrderOutputs
    /\ BagOfSeq(merged) = BagOfSeq(FileOrderOutputs)
    /\ stats.n >= 3

\* C10: when no combination meets the floor, main ends normally and does not
\* raise.
C10_NoCombinationReported ==
    (pc \in {"done", "crashed"} /\ fileIdx > Len(files) /\ results = <<>>) => pc = "done"

\* the grid loop has run over every combination
GridFinished == pc = "grid" /\ comboIdx > NCombos

Looser(p, q) ==
    /\ p.p_hold = q.p_hold /\ p.p_stop = q.p_stop /\ p.p_k_lvl = q.p_k_lvl
    /\ \/ p.p_pot = q.p_pot /\ q.p_rsi > p.p_rsi
       \/ p.p_rsi = q.p_rsi /\ q.p_pot < p.p_pot

\* C12: for two combinations that differ in one entry threshold only, the
\* looser one (higher rsi_max or lower min_pot) selects every candidate the
\* other selects, so its subset is never smaller: for every pair of the grid
\* on every pool the grid loop starts from, and for the mask of every
\* combination the loop evaluates.
C12_Monotone ==
    /\ (pc = "grid" /\ comboIdx = 1) =>
          \A a, b \in 1..NCombos :
              Looser(ComboAt(a), ComboAt(b)) =>
                  LET ma == EntryMask(raw_signals, ComboAt(a))
                      mb == EntryMask(raw_signals, ComboAt(b))
                  IN  /\ \A i \in DOMAIN raw_signals : ma[i] => mb[i]
                      /\ CountTrue(ma) <= CountTrue(mb)
    /\ (pc = "grid" /\ Rows # {}) =>
          \A b \in 1..NCombos :
              Looser(loc.p, ComboAt(b)) =>
                  LET mb == EntryMask(raw_signals, ComboAt(b))
                  IN  /\ \A i \in DOMAIN loc.mask : loc.mask[i] => mb[i]
                      /\ CountTrue(loc.mask) <= CountTrue(mb)

\* the grid has evaluated a combination whose subset grows when rsi_max is
\* raised, and one whose subset grows when min_pot is lowered
C12_Witness ==
    /\ Rows # {}
    /\ \E b \in 1..NCombos :
          /\ Looser(loc.p, ComboAt(b)) /\ ComboAt(b).p_rsi > loc.p.p_rsi
          /\ CountTrue(EntryMask(raw_signals, ComboAt(b))) > CountTrue(loc.mask)
    /\ \E a, b \in 1..NCombos :
          /\ Looser(ComboAt(a), ComboAt(b)) /\ ComboAt(b).p_pot < ComboAt(a).p_pot
          /\ CountTrue(EntryMask(raw_signals, ComboAt(a))) > 0
          /\ CountTrue(EntryMask(raw_signals, ComboAt(b)))
                > CountTrue(EntryMask(raw_signals, ComboAt(a)))

PassesComparisons(b) == b.potential > 10 /\ b.rsi6 < 45 /\ b.k > b.d

\* the longest warm-up of the indicators the admission mask reads: the first
\* position at which all of them are defined
FirstDefined == IF MA60_WIN >= KDJ_WIN THEN MA60_WIN ELSE KDJ_WIN

\* C14: no candidate of the pool and no trade of backtest_task is created at
\* a position where an indicator of the admission predicate is still inside
\* its warm-up, nor at a position followed by fewer bars than the forward
\* window (the holding horizon) needs.
C14_NoEarlyNoLate ==
    /\ Len(made) = Len(raw_signals)
    /\ \A n \in DOMAIN made :
          LET bars == files[made[n][1]].bars
              i    == made[n][2]
          IN  /\ i >= FirstDefined
              /\ i + FWD_LEN <= Len(bars)
              /\ raw_signals[n].entry_p = bars[i].close
    /\ (btpc = "returned" /\ ~btRet.none) =>
          /\ Len(btRet.at) = Len(btRet.trades)
          /\ \A n \in DOMAIN btRet.at :
                /\ btRet.at[n] >= GO_MA60_WIN
                /\ btRet.at[n] + HOLD_DAYS <= Len(btFile.bars)

\* a scanned file added a candidate, and holds a row inside the warm-up and
\* a row too close to the end whose values pass the comparisons
C14_Witness ==
    /\ pc = "grid"
    /\ \E n \in DOMAIN made :
          LET bars == files[made[n][1]].bars
          IN  /\ \E i \in 1..(FirstDefined - 1) : PassesComparisons(bars[i])
              /\ \E i \in FirstDefined..Len(bars) :
                    /\ PassesComparisons(bars[i])
                    /\ i + FWD_LEN > Len(bars)
                    /\ \A m \in DOMAIN made : made[m] # <<made[n][1], i>>

\* backtest_task returned trades for a file with a labelled row inside the
\* warm-up and a labelled row too close to the end
C14_TaskCase ==
    /\ btpc = "returned"
    /\ btRet.at # <<>>
    /\ \E i \in 1..(GO_MA60_WIN - 1) : btFile.bars[i].sig
    /\ \E i \in GO_MA60_WIN..Len(btFile.bars) :
          btFile.bars[i].sig /\ i + HOLD_DAYS > Len(btFile.bars)

\* C15: for every scanned series, every position beyond the longest warm-up
\* whose row satisfies the admission predicate and which is followed by at
\* least FWD_LEN bars (idx < length - horizon) has a candidate in the pool.
C15_EveryEligibleCreated ==
    \A f \in 1..(fileIdx - 1) :
        files[f].kind = "ok" =>
            \A i \in FirstDefined..Len(files[f].bars) :
                (PassesComparisons(files[f].bars[i]) /\ i + FWD_LEN <= Len(files[f].bars))
                => \E n \in DOMAIN made : made[n] = <<f, i>>

\* C15, the scan guard as the code has it: the same for every position
\* followed by at least FWD_LEN + 1 bars.
C15_CreatedWithOneMoreBar ==
    \A f \in 1..(fileIdx - 1) :
        files[f].kind = "ok" =>
            \A i \in FirstDefined..Len(files[f].bars) :
                (PassesComparisons(files[f].bars[i]) /\ i + FWD_LEN < Len(files[f].bars))
                => \E n \in DOMAIN made : made[n] = <<f, i>>

\* C15 for backtest_task: every labelled position beyond the warm-up that is
\* followed by at least HOLD_DAYS bars has a trade.
C15_TaskTradesEvery ==
    (btpc = "returned" /\ ~btRet.none) =>
        \A i \in GO_MA60_WIN..Len(btFile.bars) :
            (btFile.bars[i].sig /\ i + HOLD_DAYS <= Len(btFile.bars))
            => \E n \in DOMAIN btRet.at : btRet.at[n] = i

\* the largest hold of the grid
MaxHold ==
    CHOOSE h \in {PARAM_GRID.max_hold[j] : j \in DOMAIN PARAM_GRID.max_hold} :
        \A j \in DOMAIN PARAM_GRID.max_hold : PARAM_GRID.max_hold[j] <= h

WindowFields == {"f_close", "f_low", "f_k", "f_d", "f_macd_h"}

SourceField(w) ==
    CASE w = "f_close" -> "close" [] w = "f_low" -> "low" [] w = "f_k" -> "k"
      [] w = "f_d" -> "d" [] w = "f_macd_h" -> "macd_h"

\* C16: every candidate of the pool has its five forward windows of one
\* length, the largest hold of the grid, and each window holds the values of
\* the bars that follow the entry bar, in order.
C16_NoRaggedWindow ==
    /\ Len(made) = Len(raw_signals)
    /\ \A n \in DOMAIN raw_signals : \A w \in WindowFields :
          /\ Len(raw_signals[n][w]) = MaxHold
          /\ \A j \in 1..Len(raw_signals[n][w]) :
                raw_signals[n][w][j]
                  = files[made[n][1]].bars[made[n][2] + j][SourceField(w)]

\* a pool with two candidates of one instrument and a candidate of another
C16_Witness ==
    \E a, b, c \in DOMAIN made :
        /\ made[a][1] = made[b][1] /\ made[a][2] # made[b][2]
        /\ made[c][1] # made[a][1]
        /\ Len(raw_signals[c].f_close) = MaxHold

\* the rows of the report are in descending order of win rate
WinDescending ==
    \A i, j \in DOMAIN report : i < j => report[i].win >= report[j].win

\* rows of equal win rate are in descending order of the field c
TiesBy(c) ==
    \A i, j \in DOMAIN report :
        (i < j /\ report[i].win = report[j].win) => report[i][c] >= report[j][c]

\* C17: the rows of the ranked report are ordered by win rate descending and
\* rows of equal win rate by sample count or by mean return, so that the
\* order is fixed by the rows' own values.
C17_TotalKey ==
    pc = "done" => (WinDescending /\ (TiesBy("count") \/ TiesBy("mean")))

\* C17, the single key of the code: the rows are in descending order of win
\* rate.
C17_WinRateOnly ==
    pc = "done" => WinDescending

\* the positions of results whose row is in the report
Reported == {n \in DOMAIN results : \E i \in DOMAIN report : report[i] = results[n]}

\* C18: the report holds at most TOP_K results, each of them once; no result
\* left out has a win rate strictly higher than one that is in; when there
\* are at most TOP_K results all of them are in the report.
C18_TopK ==
    pc = "done" =>
        /\ Len(report) <= TOP_K
        /\ \A i \in DOMAIN report : \E n \in DOMAIN results : report[i] = results[n]
        /\ Cardinality(Reported) = Len(report)
        /\ \A n \in DOMAIN results \ Reported : \A i \in DOMAIN report :
              results[n].win <= report[i].win
        /\ Len(results) <= TOP_K => Reported = DOMAIN results

\* more than TOP_K results, one left out with a win rate strictly below the
\* last row of the report, which is not the last result evaluated
C18_Witness ==
    /\ pc = "done"
    /\ Len(results) > TOP_K
    /\ Len(report) = TOP_K
    /\ \E n \in DOMAIN results \ Reported :
          /\ results[n].win < report[TOP_K].win
          /\ n < Len(results)

\* not more than TOP_K results, all of them in the report, reordered
C18_ShortList ==
    /\ pc = "done"
    /\ Len(results) = TOP_K
    /\ Reported = DOMAIN results
    /\ report # results

\* C19: a coordinator computes its statistics only after every instrument
\* task has completed and its result has been taken: while a task is running
\* or a result is waiting, no statistics exist, and the statistics are those
\* of the results of all tasks.
C19_SummaryAfterAll ==
    /\ ppc = "collect" => stats = NoStats
    /\ ppc = "done" =>
          /\ \A t \in Tasks : tstate[t] = "done"
          /\ Taken = Tasks
          /\ Len(merged) = Len(FileOrderOutputs)
          /\ stats.n = Len(FileOrderOutputs)

\* pool.map has returned with the results of all tasks, some of them empty
\* or None, and the statistics are computed
C19_Witness ==
    /\ coord = "map"
    /\ ppc = "done"
    /\ \E t \in Tasks : tres[t].none
    /\ \E t \in Tasks : ~tres[t].none /\ tres[t].out = <<>>
    /\ stats.n >= 2

\* the explicit loop over the days 1..p_hold with the rules of the grid: the
\* stop first, then the other rules, stopping at the first day a rule fires,
\* and the close of day p_hold otherwise
RECURSIVE LoopResolve(_, _, _)
LoopResolve(s, p, j) ==
    IF j > p.p_hold
    THEN [closed |-> FALSE, day |-> p.p_hold,
          ret |-> Rat(s.f_close[p.p_hold] - s.entry_p, s.entry_p)]
    ELSE IF C1(s, p, j)
    THEN [closed |-> TRUE, day |-> j, ret |-> Rat(p.p_stop, 100)]
    ELSE IF C2(s, p, j) \/ C3(s, p, j)
    THEN [closed |-> TRUE, day |-> j,
          ret |-> Rat(s.f_close[j] - s.entry_p, s.entry_p)]
    ELSE LoopResolve(s, p, j + 1)

\* C20: for every trade the bulk resolution of the grid loop (OR of the rule
\* matrices, first true column, stop-loss override on that column, close of
\* the horizon when no column is true) gives the exit day and the return of
\* the explicit day-by-day loop.
C20_BulkEqualsLoop ==
    \A i \in Rows :
        LET r == LoopResolve(Sel[i], loc.p, 1)
        IN  /\ loc.final_rets[i] = r.ret
            /\ loc.has_exit[i] = r.closed
            /\ r.closed => loc.first_exit[i] = r.day

\* one trade stopped on its second day at a close that is not the stop
\* price, after a first day on which no rule fires, and one trade that runs
\* to the horizon
C20_Witness ==
    /\ \E i \in Rows :
          LET r == LoopResolve(Sel[i], loc.p, 1)
          IN  /\ r.closed /\ r.day = 2 /\ C1(Sel[i], loc.p, 2)
              /\ (C2(Sel[i], loc.p, 2) \/ C3(Sel[i], loc.p, 2))
              /\ Rat(Sel[i].f_close[2] - Sel[i].entry_p, Sel[i].entry_p) # r.ret
              /\ loc.final_rets[i] = r.ret
    /\ \E i \in Rows : ~LoopResolve(Sel[i], loc.p, 1).closed /\ ~loc.has_exit[i]

\* the returns of the rules of the day loop that are true on a day
GoRuleRets(bars, i, day) ==
    LET e == bars[i].close
        b == bars[i + day]
    IN  (IF StopHit(b.low, e) THEN {Pct(STOP_LOSS_LIMIT)} ELSE {})
        \cup (IF Ma60Hit(b) THEN {Rat(b.ma60 - e, e)} ELSE {})
        \cup (IF Ma20Hit(b, e) THEN {Rat(b.ma20 - e, e)} ELSE {})

\* C23: in backtest_task every signal index idx with idx + HOLD_DAYS < length
\* appends exactly one return: that of a rule true on the first day in
\* 1..HOLD_DAYS on which the stop-loss, the MA60 or the MA20 rule is true,
\* and otherwise the return at the close of day HOLD_DAYS; no signal yields
\* zero returns or two.
C23_ExactlyOneReturn ==
    (btpc = "returned" /\ ~btRet.none) =>
        /\ Len(btRet.trades) = Len(GoTraded(btFile.bars))
        /\ \A n \in 1..Len(GoTraded(btFile.bars)) :
              LET i == GoTraded(btFile.bars)[n]
                  e == btFile.bars[i].close
              IN  /\ n \in DOMAIN btRet.trades
                  /\ \A day \in 1..HOLD_DAYS :
                        GoFirstRuleDay(btFile.bars, i, day)
                        => btRet.trades[n] \in GoRuleRets(btFile.bars, i, day)
                  /\ (\A day \in 1..HOLD_DAYS : ~GoFirstRuleDay(btFile.bars, i, day))
                        => btRet.trades[n] = Rat(btFile.bars[i + HOLD_DAYS].close - e, e)

\* a file with two traded signals, one that no rule closes and one that a
\* rule closes, and two returns
C23_Witness ==
    /\ btpc = "returned"
    /\ Len(btRet.trades) = 2
    /\ \E n \in 1..2 : \A day \in 1..HOLD_DAYS :
          ~GoFirstRuleDay(btFile.bars, GoTraded(btFile.bars)[n], day)
    /\ \E n \in 1..2 : \E day \in 1..HOLD_DAYS :
          GoFirstRuleDay(btFile.bars, GoTraded(btFile.bars)[n], day)

\* in backtest_task, the trade of position i is closed on day by the MA20 rule
GoClosedByMa20(bars, i, day) ==
    /\ GoFirstRuleDay(bars, i, day)
    /\ ~StopHit(bars[i + day].low, bars[i].close)
    /\ ~Ma60Hit(bars[i + day])
    /\ Ma20Hit(bars[i + day], bars[i].close)

\* C26: in backtest_task the return recorded for a trade closed by the MA20
\* take-profit rule is never below +0.05.
C26_Ma20ExitAtLeastFivePercent ==
    (btpc = "returned" /\ ~btRet.none) =>
        \A n \in DOMAIN btRet.trades : \A day \in 1..HOLD_DAYS :
            GoClosedByMa20(btFile.bars, GoTraded(btFile.bars)[n], day)
            => RatLE(Rat(5, 100), btRet.trades[n])

\* low <= close on every day of the forward window of a candidate
LowBelowClose(s) == \A j \in 1..FWD_LEN : s.f_low[j] <= s.f_close[j]

\* C29: if low <= close on every bar, every realized return the grid
\* evaluator computes for a combination p is at least p.stop_loss.
C29_ReturnAtLeastStop ==
    \A i \in Rows :
        LowBelowClose(Sel[i]) => RatLE(Pct(loc.p.p_stop), loc.final_rets[i])

\* a trade whose first exit day breaches the stop and closes below the stop
\* price, recorded at the stop, next to a trade that runs to the horizon
C29_Witness ==
    /\ \E i \in Rows :
          /\ LowBelowClose(Sel[i]) /\ loc.has_exit[i]
          /\ C1(Sel[i], loc.p, loc.first_exit[i])
          /\ RatLT(Rat(Sel[i].f_close[loc.first_exit[i]] - Sel[i].entry_p, Sel[i].entry_p),
                   Pct(loc.p.p_stop))
          /\ loc.final_rets[i] = Pct(loc.p.p_stop)
    /\ \E i \in Rows : LowBelowClose(Sel[i]) /\ ~loc.has_exit[i]

\* the candidate s with day j of its forward window replaced by the bar b
ReplaceDay(s, j, b) ==
    [s EXCEPT !.f_close[j] = b.close, !.f_low[j] = b.low, !.f_k[j] = b.k,
              !.f_d[j] = b.d, !.f_macd_h[j] = b.macd_h]

\* the day a selected row is closed: its first exit day, else the horizon
ExitDay(i) == IF loc.has_exit[i] THEN loc.first_exit[i] ELSE loc.p.p_hold

\* a day on which every exit rule is true and a day on which none is: two
\* windows that differ on one day have the return of the window that holds
\* one of these bars on that day
FrameDays == {Day(89, 85, 75, 80, -1), Day(104, 95, 50, 40, 0)}

\* C30: the realized return of a candidate depends only on its entry price
\* and on the forward-window values up to and including its exit day, never
\* on values beyond p.hold_days: a candidate that differs from it on a later
\* day only has the same return.
C30_ReturnFrame ==
    \A i \in Rows : \A j \in (ExitDay(i) + 1)..FWD_LEN : \A b \in FrameDays :
        FinalRet(ReplaceDay(Sel[i], j, b), loc.p) = loc.final_rets[i]

\* a trade that runs to a horizon shorter than the window, with a rule true
\* on a later day, and whose return is that of the close of the horizon
C30_Witness ==
    \E i \in Rows :
        /\ ~loc.has_exit[i] /\ loc.p.p_hold < FWD_LEN
        /\ \E j \in (loc.p.p_hold + 1)..FWD_LEN :
              /\ AnyRule(Sel[i], loc.p, j)
              /\ Sel[i].f_close[j] # Sel[i].f_close[loc.p.p_hold]
        /\ loc.final_rets[i] =
              Rat(Sel[i].f_close[loc.p.p_hold] - Sel[i].entry_p, Sel[i].entry_p)

\* the entries and the exits of run_backtest so far, in order
Entries == LET IsEntry(ev) == ev[1] = "entry" IN SelectSeq(wlog, IsEntry)
Exits == LET IsExit(ev) == ev[1] = "exit" IN SelectSeq(wlog, IsExit)

\* the open of the week after week i
NextOpen(i) == PyIloc(w_df, i + 1).open

\* the close of week x is below 95% of the price bp, or its MA5 below its MA10
ExitCondition(x, bp) ==
    PyIloc(w_df, x).close * 100 < 95 * bp \/ PyIloc(w_df, x).MA5 < PyIloc(w_df, x).MA10

C27_OnePosition ==
    /\ \A k \in DOMAIN wlog : wlog[k][1] = (IF k % 2 = 1 THEN "entry" ELSE "exit")
    /\ \A k \in 1..(Len(wlog) - 1) : wlog[k][2] < wlog[k + 1][2]
    /\ Len(trades) = Len(Exits)
    /\ Len(Entries) - Len(trades) \in {0, 1}
    /\ in_pos <=> (Len(Entries) - Len(trades) = 1)

\* an exit followed by a new entry in the very next week
C27_Witness ==
    \E k \in 1..(Len(wlog) - 1) :
        /\ wlog[k][1] = "exit" /\ wlog[k + 1][1] = "entry"
        /\ wlog[k + 1][2] = wlog[k][2] + 1

\* C28: a position still open after the last scanned week (index
\* len(w_df) - 2) produces no trade record: run_backtest returns no trade
\* for an entry that no week up to that index closes.
C28_OpenPositionUnrecorded ==
    wpc = "returned" =>
        /\ \A k \in 1..Len(Entries) :
              (\A x \in (Entries[k][2] + 1)..(Len(w_df) - 2) :
                    ~ExitCondition(x, NextOpen(Entries[k][2])))
              => (Len(trades) < k /\ in_pos)
        /\ in_pos => \A n \in DOMAIN trades : trades[n].buy_d # buy_d

\* run_backtest returned with a position open whose exit condition is true
\* in the last week of the frame, after an earlier trade was recorded
C28_Witness ==
    /\ wpc = "returned" /\ in_pos /\ trades # <<>>
    /\ ExitCondition(Len(w_df) - 1, buy_p)

\* the conditions check_signal applies to a historical bar: price 5 to 20,
\* close above the four averages with the open below the three shorter ones,
\* a change above 4.5%, a volume above 1.5 times its 5-day mean
PatternHolds(b) ==
    /\ 50 <= b.close /\ b.close <= 200
    /\ \A f \in {"ma5", "ma10", "ma20", "ma60"} : b.close > b[f]
    /\ \A f \in {"ma5", "ma10", "ma20"} : b.open < b[f]
    /\ b.change > 45
    /\ b.v_ma5 # 0 /\ 10 * b.volume > 15 * b.v_ma5

\* C25: whenever the most recent bar of a file that process_single_file
\* accepts satisfies the pattern that check_signal applies to historical
\* bars, a today signal is returned for the instrument.
C25_TodaySignalReturned ==
    (fupc = "returned" /\ ~fuRet.none /\ PatternHolds(fuFile.bars[Len(fuFile.bars)]))
    => ~fuRet.today.none

\* the historical sampling does return a profit for a bar with the pattern
\* at an index from 60 on that is followed by more than five bars
C25_HistoricalSampled ==
    (fupc = "returned" /\ ~fuRet.none) =>
        Len(fuRet.backtest) =
            Cardinality({i \in (FU_MIN_IDX + 1)..(Len(fuFile.bars) - 5) :
                            PatternHolds(fuFile.bars[i])})

\* process_single_file never returns a today signal
C25_NoTodayEver == fupc = "returned" => fuRet.today.none

\* the arrays calculate_indicators returns
IndicatorFields ==
    {"close", "low", "high", "rsi6", "kdj_k", "ma5", "ma20", "ma60", "vol_ratio",
     "ma5_change", "avg_amp_3", "min_3d_low", "change", "avg_turnover_30", "potential"}

\* C21: the indicator values and the signal label at index i depend only on
\* the bars at indexes <= i: the series cut after any bar j >= i gives the
\* same values and the same label at i, also at index 0, where np.roll puts
\* the last element of the series.
C21_NoLookAhead ==
    gopc = "signals" =>
        \A j \in 1..Len(goDf.rows) :
            LET pa == IndicatorArrays(SubSeq(goDf.rows, 1, j))
                ps == SignalLabels(pa)
            IN  \A i \in 1..j :
                    /\ \A f \in IndicatorFields : pa[f][i] = goInd.a[f][i]
                    /\ ps[i] = goSigs[i]

\* a series with a label on a bar that is not its last, whose last bar brings
\* to index 0, through np.roll, a defined ma5 and an rsi6 and a volume ratio
\* that pass the comparisons of the add label; index 0 has no label
C21_Witness ==
    /\ gopc = "signals"
    /\ \E i \in 1..(Len(goSigs) - 1) : goSigs[i] # Nil
    /\ ~Roll(goInd.a.ma5)[1].nan
    /\ FLE(Roll(goInd.a.rsi6)[1], FInt(RSI_MAX))
    /\ FLE(Roll(goInd.a.vol_ratio)[1], SHRINK_VOL_MAX)
    /\ goSigs[1] = Nil /\ goInd.a.ma5_change[1].nan

\* the close rises on every row of the series
StrictlyRising == \A i \in 2..Len(goDf.rows) : goDf.rows[i].close > goDf.rows[i - 1].close

\* C22 as stated: for a strictly increasing close series rsi6 equals 100 at
\* every index after the first.
C22_RsiEquals100 ==
    (gopc = "indicators" /\ ~goInd.none /\ StrictlyRising) =>
        \A i \in 2..Len(goDf.rows) : goInd.a.rsi6[i] = FInt(100)

\* C22, amended: for a strictly increasing close series rsi6 is defined at
\* every index; after the first it is 100 * up / (up + eps), with up the
\* smoothed gain and eps the value that replaces the zero loss term, which is
\* below 100 by less than 100 * eps / up; at the first index it is 0.
C22_RsiJustBelow100 ==
    (gopc = "indicators" /\ ~goInd.none /\ StrictlyRising) =>
        /\ goInd.a.rsi6[1] = FInt(0)
        /\ \A i \in 2..Len(goDf.rows) :
              LET up  == SmoothedUp(Column(goDf.rows, "close"))[i]
                  rsi == goInd.a.rsi6[i]
              IN  /\ ~rsi.nan
                  /\ rsi = FDiv(FMul(FInt(100), up), FAdd(up, EPS))
                  /\ FLT(rsi, FInt(100))
                  /\ FLT(FMul(FSub(FInt(100), rsi), up), FMul(FInt(100), EPS))

\* the indicators of a rising series of the largest length, whose smoothed
\* loss is zero on every row
C22_Witness ==
    /\ gopc = "indicators" /\ ~goInd.none /\ StrictlyRising
    /\ Len(goDf.rows) = MaxSeries
    /\ \A i \in 1..Len(goDf.rows) :
          SmoothedDn(Column(goDf.rows, "close"))[i] = FInt(0)

=============================================================================
